---------------------------- MODULE Spec2Model ----------------------------
(***************************************************************************)
(* A model of the asset registry of belacks/valdo: the SQLite store of     *)
(* helpers/db.py (catalog dim_assets, registry fact_inventory), the bulk   *)
(* creation loop of app.py with the identifier sequencer of               *)
(* helpers/utils.py, and the directory scan of helpers/automation.py.      *)
(*                                                                         *)
(* Values.  A Python / SQLite value is a tuple whose first element tells   *)
(* its type, so that any two values can be compared:                       *)
(*   text           a sequence of one-character strings, <<"A","1">>       *)
(*   None (NULL)    <<"None">>                                             *)
(*   NaN            <<"NaN">>     (an empty spreadsheet cell in pandas)    *)
(*   the integer n  <<"int", n>>                                           *)
(*   the float i.f  <<"float", i, f>>  (i >= 0, f the digits after the     *)
(*                  point as a text; a numeric spreadsheet cell in pandas) *)
(***************************************************************************)
EXTENDS Integers, Sequences, FiniteSets, TLC

None == <<"None">>
NaN == <<"NaN">>
Int_(n) == <<"int", n>>
IsInt(v) == Len(v) = 2 /\ v[1] = "int"
Float_(i, f) == <<"float", i, f>>
IsFloat(v) == Len(v) = 3 /\ v[1] = "float"

(***************************************************************************)
(* Text helpers (Python str methods used by the source).                   *)
(***************************************************************************)
DigitChars == <<"0", "1", "2", "3", "4", "5", "6", "7", "8", "9">>
IsDigit(c) == \E k \in 1..10 : DigitChars[k] = c
DigitVal(c) == (CHOOSE k \in 1..10 : DigitChars[k] = c) - 1

RECURSIVE NatToStr(_)
NatToStr(n) ==
    IF n < 10 THEN <<DigitChars[n + 1]>>
    ELSE NatToStr(n \div 10) \o <<DigitChars[(n % 10) + 1]>>

\* str(n) of a Python int
IntToStr(n) == IF n < 0 THEN <<"-">> \o NatToStr(0 - n) ELSE NatToStr(n)

RECURSIVE StrToNat(_)
\* int(s) of a non-empty run of decimal digits
StrToNat(s) ==
    IF Len(s) = 0 THEN 0
    ELSE 10 * StrToNat(SubSeq(s, 1, Len(s) - 1)) + DigitVal(s[Len(s)])

RECURSIVE Zeros(_)
Zeros(n) == IF n <= 0 THEN <<>> ELSE <<"0">> \o Zeros(n - 1)

\* a fault: a padding that keeps only the last width characters
ZfillTruncating(s, width) ==
    IF Len(s) >= width THEN SubSeq(s, Len(s) - width + 1, Len(s))
    ELSE Zeros(width - Len(s)) \o s

\* str.zfill(width): zeros are inserted after a leading sign; never truncates
Zfill(s, width) ==
    IF Len(s) >= width THEN s
    ELSE IF Len(s) > 0 /\ s[1] \in {"-", "+"}
         THEN <<s[1]>> \o Zeros(width - Len(s)) \o Tail(s)
         ELSE Zeros(width - Len(s)) \o s

RECURSIVE LStrip(_)
LStrip(s) == IF Len(s) > 0 /\ s[1] = " " THEN LStrip(Tail(s)) ELSE s
RECURSIVE RStrip(_)
RStrip(s) ==
    IF Len(s) > 0 /\ s[Len(s)] = " " THEN RStrip(SubSeq(s, 1, Len(s) - 1)) ELSE s
\* str.strip()
Strip(s) == LStrip(RStrip(s))

\* str(v) of a cell value
Str(v) ==
    IF v = NaN THEN <<"n", "a", "n">>
    ELSE IF v = None THEN <<"N", "o", "n", "e">>
    ELSE IF IsInt(v) THEN IntToStr(v[2])
    ELSE IF IsFloat(v) THEN IntToStr(v[2]) \o <<".">> \o v[3]
    ELSE v

\* pd.notna(v)
NotNa(v) == v # NaN /\ v # None

\* Python truthiness of a text or None value ("if s", "not s")
Truthy(v) == v # None /\ v # <<>>

(***************************************************************************)
(* helpers/utils.py: increment_string                                      *)
(***************************************************************************)
\* the span (start, end), 1-based inclusive, of the last match of \d+
LastDigitRunEnd(s) ==
    IF \E k \in 1..Len(s) : IsDigit(s[k])
    THEN CHOOSE e \in 1..Len(s) :
            IsDigit(s[e]) /\ \A k \in (e + 1)..Len(s) : ~IsDigit(s[k])
    ELSE 0

LastDigitRunStart(s) ==
    LET e == LastDigitRunEnd(s)
    IN  CHOOSE b \in 1..e :
            /\ \A k \in b..e : IsDigit(s[k])
            /\ (b = 1 \/ ~IsDigit(s[b - 1]))

\* a fault: a text without digits gets a number appended
IncrementOrAppend(s, steps) ==
    IF \E k \in 1..Len(s) : IsDigit(s[k])
    THEN s
    ELSE s \o IntToStr(steps)

increment_string(s, steps) ==
    IF ~Truthy(s) THEN s
    ELSE IF LastDigitRunEnd(s) = 0 THEN s
    ELSE LET start == LastDigitRunStart(s)
             end == LastDigitRunEnd(s)
             prefix == SubSeq(s, 1, start - 1)
             number_str == SubSeq(s, start, end)
             suffix == SubSeq(s, end + 1, Len(s))
             current_val == StrToNat(number_str)
             new_val == current_val + steps
             new_number_str == Zfill(IntToStr(new_val), Len(number_str))
         IN  prefix \o new_number_str \o suffix

(***************************************************************************)
(* State.                                                                  *)
(*   dim_assets      the catalog table: a set of rows                      *)
(*   fact_inventory  the registry table: its rows in rowid order, which is *)
(*                   also the order of the timestamp column (each insert   *)
(*                   stamps datetime.now())                                *)
(*   ret             the most recent call of the store API: its name, its  *)
(*                   argument and what it returned or raised               *)
(*   dlg             per browser session, the run of add_inventory_dialog: *)
(*                   where it stands and its local variables               *)
(*   has_is_deleted  whether the fact_inventory table of the database file *)
(*                   has a column is_deleted                               *)
(*   SCAN_RESULTS    the module-level dict of helpers/automation.py        *)
(*   scan            the run of scan_directory: where it stands, its local *)
(*                   variables, and the number of the run                  *)
(*   observed        the fields a caller of get_latest_scan_results read   *)
(*   published       history: the initial result and, for every run that   *)
(*                   reached its publish, the result of that run           *)
(***************************************************************************)
VARIABLES dim_assets, fact_inventory, ret, dlg,
          has_is_deleted, SCAN_RESULTS, scan, observed, published, txn

\* what the calls of the store API and the dialog leave alone: the scan, and
\* the transaction of a call that is followed statement by statement
scanvars == <<has_is_deleted, SCAN_RESULTS, scan, observed, published, txn>>

vars == <<dim_assets, fact_inventory, ret, dlg, scanvars>>

\* dict.get(key): None when the key is absent
Get(d, k) == IF k \in DOMAIN d THEN d[k] ELSE None
\* dict.get(key, default) / row.get(col, default)
GetOr(d, k, default) == IF k \in DOMAIN d THEN d[k] ELSE default

(***************************************************************************)
(* SQL statements of helpers/db.py on the two tables.                      *)
(***************************************************************************)
\* SELECT 1 FROM fact_inventory WHERE kode = ?
KodeIn(inv, kode) == \E i \in 1..Len(inv) : inv[i].kode = kode

\* a fault: a kode column without its PRIMARY KEY
KeyNeverConflicts(inv, row) == FALSE

\* kode TEXT PRIMARY KEY: a row whose kode is already stored is refused
InventoryKeyConflict(inv, row) == KodeIn(inv, row.kode)

\* a fault: an insert that is never refused
InsertNeverRefused(inv, row) == "ok"

\* INSERT INTO fact_inventory: "IntegrityError" or "ok"
InventoryInsertError(inv, row) ==
    IF InventoryKeyConflict(inv, row) THEN "IntegrityError"
    ELSE IF row.nama_aset = None THEN "IntegrityError"
    ELSE "ok"

\* a fault: a nama_aset column without its PRIMARY KEY
AssetNeverIn(dim, nama_aset) == FALSE

\* nama_aset TEXT PRIMARY KEY of dim_assets
AssetIn(dim, nama_aset) == \E a \in dim : a.nama_aset = nama_aset

\* the row stored for the dict passed to insert_inventory (Excel-style keys)
InventoryRowOfData(data) ==
    [kode |-> Get(data, "Kode"),
     serial_number |-> Get(data, "Serial_Number"),
     nama_aset |-> Get(data, "Nama_Aset"),
     brand |-> Get(data, "Brand"),
     quantity |-> Get(data, "Quantity")]

kode_exists(kode) == KodeIn(fact_inventory, kode)

\* cursor.fetchone() as "dict(row) if row else None": <<row>>, or <<>> for None
NoRow == <<>>

\* SELECT * FROM dim_assets WHERE nama_aset = ?
AssetByName(dim, nama_aset) ==
    IF AssetIn(dim, nama_aset)
    THEN <<CHOOSE a \in dim : a.nama_aset = nama_aset>>
    ELSE NoRow

get_asset_by_name(nama_aset) == AssetByName(dim_assets, nama_aset)

(***************************************************************************)
(* Inputs of the callers.                                                  *)
(***************************************************************************)
A1 == <<"A", "1">>
A2 == <<"A", "2">>
A3 == <<"A", "3">>
PC == <<"P", "C">>
TV == <<"T", "V">>
S1 == <<"S", "1">>
Dell == <<"D", "e", "l", "l">>

\* dicts passed to insert_inventory: two with the same code and other values
InventoryInputs ==
    { [Kode |-> A1, Serial_Number |-> S1, Nama_Aset |-> PC,
       Brand |-> Dell, Quantity |-> Int_(1)],
      [Kode |-> A1, Serial_Number |-> <<>>, Nama_Aset |-> PC,
       Brand |-> None, Quantity |-> Int_(1)] }

\* dicts passed to insert_asset: two with the same name and other values
AssetInputs ==
    { [nama_aset |-> PC, brand |-> Dell],
      [nama_aset |-> PC, brand |-> <<>>] }

DeleteInputs == {A1, A3}

(***************************************************************************)
(* helpers/db.py: the store API, one action per call.                      *)
(***************************************************************************)
\* the table after INSERT OR REPLACE: a row with the same kode gives way
InventoryInsertOrReplace(inv, row) ==
    IF KodeIn(inv, row.kode)
    THEN [k \in 1..Len(inv) |-> IF inv[k].kode = row.kode THEN row ELSE inv[k]]
    ELSE Append(inv, row)

\* a fault: insert_inventory as an INSERT OR REPLACE
InventoryAfterInsertOrReplace(inv, row) == InventoryInsertOrReplace(inv, row)

\* the registry after INSERT INTO fact_inventory and commit
InventoryAfterInsert(inv, row) ==
    IF InventoryInsertError(inv, row) = "ok" THEN Append(inv, row) ELSE inv

insert_inventory(data) ==
    LET row == InventoryRowOfData(data)
        err == InventoryInsertError(fact_inventory, row)
    IN  /\ fact_inventory' = InventoryAfterInsert(fact_inventory, row)
        /\ ret' = [op |-> "insert_inventory", arg |-> data, val |-> err]
        /\ UNCHANGED dim_assets

\* a fault: a DELETE without its WHERE clause
DeleteEveryRow(inv, kode) == <<>>

\* a fault: a DELETE that matches no row
DeleteNothing(inv, kode) == inv

DeleteWhereKode(inv, kode) == SelectSeq(inv, LAMBDA r : r.kode # kode)

delete_inventory(kode) ==
    /\ fact_inventory' = DeleteWhereKode(fact_inventory, kode)
    /\ ret' = [op |-> "delete_inventory", arg |-> kode,
               val |-> IF Len(fact_inventory') < Len(fact_inventory)
                       THEN "True" ELSE "False"]
    /\ UNCHANGED dim_assets

insert_asset(data) ==
    LET row == [nama_aset |-> Get(data, "nama_aset"), brand |-> Get(data, "brand")]
        dup == AssetIn(dim_assets, row.nama_aset)
    IN  /\ dim_assets' = IF dup THEN dim_assets ELSE dim_assets \cup {row}
        /\ ret' = [op |-> "insert_asset", arg |-> data,
                   val |-> IF dup THEN "IntegrityError" ELSE "ok"]
        /\ UNCHANGED fact_inventory

\* the tuple of values upsert_asset_and_inventory binds for the registry row,
\* after the fill-in from an existing catalog row (lowercase keys)
UpsertInventoryRow(existing, inventory_data) ==
    [kode |-> Get(inventory_data, "kode"),
     serial_number |-> Get(inventory_data, "serial_number"),
     nama_aset |-> Get(inventory_data, "nama_aset"),
     brand |-> IF existing # NoRow /\ ~Truthy(Get(inventory_data, "brand"))
               THEN existing[1].brand
               ELSE Get(inventory_data, "brand"),
     quantity |-> Get(inventory_data, "quantity")]

\* the catalog as the transaction sees it after its first statement
UpsertCatalog(dim, asset_data) ==
    IF AssetIn(dim, asset_data.nama_aset) THEN dim
    ELSE dim \cup {[nama_aset |-> asset_data.nama_aset,
                    brand |-> GetOr(asset_data, "brand", <<>>)]}

\* a fault: an except branch that does not roll back
UpsertWithoutRollback(dim_before, dim_in_txn) == dim_in_txn

\* conn.rollback() in the except branch: both tables as before the call
UpsertRollback(dim_before, dim_in_txn) == dim_before

upsert_asset_and_inventory(asset_data, inventory_data) ==
    LET existing == get_asset_by_name(asset_data.nama_aset)
        dim_in_txn == UpsertCatalog(dim_assets, asset_data)
        row == UpsertInventoryRow(existing, inventory_data)
        err == InventoryInsertError(fact_inventory, row)
    IN  /\ dim_assets' = IF err = "ok" THEN dim_in_txn
                         ELSE UpsertRollback(dim_assets, dim_in_txn)
        /\ fact_inventory' =
               IF err = "ok" THEN Append(fact_inventory, row) ELSE fact_inventory
        /\ ret' = [op |-> "upsert_asset_and_inventory",
                   arg |-> <<asset_data, inventory_data>>, val |-> err]

\* (asset_data, inventory_data) passed to upsert_asset_and_inventory: one
\* whose registry row leaves the brand to the catalog, one whose registry row
\* has no nama_aset and is refused (NOT NULL)
UpsertInputs ==
    { <<[nama_aset |-> PC],
        [kode |-> A2, nama_aset |-> PC, quantity |-> Int_(1)]>>,
      <<[nama_aset |-> TV, brand |-> Dell],
        [kode |-> A3, serial_number |-> S1]>> }

(***************************************************************************)
(* helpers/db.py: ingest_from_excel.  A data frame is its set of column    *)
(* names and its rows, each a function from the columns to cell values.    *)
(***************************************************************************)
ValueError == <<"ValueError">>

RECURSIVE AllDigits(_)
AllDigits(s) == Len(s) = 0 \/ (IsDigit(s[1]) /\ AllDigits(Tail(s)))

\* int(v) of a cell: an int as it is, a float truncated, a text of digits
\* parsed, else ValueError
PyInt(v) ==
    IF IsInt(v) THEN v
    ELSE IF IsFloat(v) THEN Int_(v[2])
    ELSE IF Len(Strip(v)) > 0 /\ AllDigits(Strip(v)) THEN Int_(StrToNat(Strip(v)))
    ELSE ValueError

\* str(row.get(col, '')).strip() if pd.notna(row.get(col)) else None
TextOrNone(row, col) ==
    IF NotNa(Get(row, col)) THEN Strip(Str(GetOr(row, col, <<>>))) ELSE None

\* int(row.get(col)) if pd.notna(row.get(col)) else None
IntOrNone(row, col) ==
    IF NotNa(Get(row, col)) THEN PyInt(Get(row, col)) ELSE None

\* str(row.get(col, '')).strip()
StrippedText(row, col) == Strip(Str(GetOr(row, col, <<>>)))

\* a fault: the import of definitions as an INSERT OR REPLACE
AssetInsertOrReplace(dim, row) ==
    {a \in dim : a.nama_aset # row.nama_aset} \cup {row}

\* INSERT OR IGNORE INTO dim_assets: the table after it
AssetInsertOrIgnore(dim, row) ==
    IF AssetIn(dim, row.nama_aset) THEN dim ELSE dim \cup {row}

\* a fault: the import as an INSERT OR REPLACE
ImportInsertOrReplace(inv, row) == InventoryInsertOrReplace(inv, row)

\* a fault: the import as a plain INSERT into a table without a key
ImportInsertAppending(inv, row) == Append(inv, row)

\* INSERT OR IGNORE INTO fact_inventory: the table after it
InventoryInsertOrIgnore(inv, row) ==
    IF InventoryInsertError(inv, row) = "ok" THEN Append(inv, row) ELSE inv

\* a fault: every statement executed counted as a row added
RowCountAlwaysOne(before, after) == 1

\* cursor.rowcount of an INSERT OR IGNORE: 1 if the row went in, 0 if ignored
RowCount(before, after) == IF after # before THEN 1 ELSE 0

RECURSIVE IngestAssets(_, _, _, _, _)
\* step 1 of ingest_from_excel, rows k.. of the frame: [dim, stats]
IngestAssets(rows, k, dim, seen_assets, stats) ==
    IF k > Len(rows) THEN [dim |-> dim, stats |-> stats]
    ELSE LET row == rows[k]
             nama_aset == StrippedText(row, "Nama Aset")
         IN  IF nama_aset = <<>> \/ nama_aset \in seen_assets
             THEN IngestAssets(rows, k + 1, dim, seen_assets, stats)
             ELSE IF IntOrNone(row, "Quantity") = ValueError
             THEN IngestAssets(rows, k + 1, dim, seen_assets,
                      [stats EXCEPT !.errors =
                          Append(@, <<"Asset", nama_aset, "ValueError">>)])
             ELSE LET new == [nama_aset |-> nama_aset,
                              brand |-> TextOrNone(row, "Brand")]
                      dim2 == AssetInsertOrIgnore(dim, new)
                  IN  IngestAssets(rows, k + 1, dim2, seen_assets \cup {nama_aset},
                          [stats EXCEPT !.assets_added =
                              IF RowCount(dim, dim2) > 0 THEN @ + 1 ELSE @])

\* the registry row built from a spreadsheet row
IngestInventoryRow(row, kode) ==
    [kode |-> kode,
     serial_number |-> TextOrNone(row, "Serial Number"),
     nama_aset |-> StrippedText(row, "Nama Aset"),
     brand |-> TextOrNone(row, "Brand"),
     quantity |-> IntOrNone(row, "Quantity")]

RECURSIVE IngestInventory(_, _, _, _)
\* step 2 of ingest_from_excel, rows k.. of the frame: [inv, stats]
IngestInventory(rows, k, inv, stats) ==
    IF k > Len(rows) THEN [inv |-> inv, stats |-> stats]
    ELSE LET row == rows[k]
             kode == StrippedText(row, "Kode")
         IN  IF kode = <<>>
             THEN IngestInventory(rows, k + 1, inv, stats)
             ELSE IF IntOrNone(row, "Quantity") = ValueError
             THEN IngestInventory(rows, k + 1, inv,
                      [stats EXCEPT !.errors =
                          Append(@, <<"Inventory", kode, "ValueError">>)])
             ELSE LET inv2 == InventoryInsertOrIgnore(inv, IngestInventoryRow(row, kode))
                  IN  IngestInventory(rows, k + 1, inv2,
                          [stats EXCEPT !.inventory_added =
                              IF RowCount(inv, inv2) > 0 THEN @ + 1 ELSE @])

ingest_from_excel(df) ==
    LET stats0 == [assets_added |-> 0, inventory_added |-> 0, errors |-> <<>>]
        step1 == IngestAssets(df, 1, dim_assets, {}, stats0)
        step2 == IngestInventory(df, 1, fact_inventory, step1.stats)
    IN  /\ dim_assets' = step1.dim
        /\ fact_inventory' = step2.inv
        /\ ret' = [op |-> "ingest_from_excel", arg |-> df, val |-> step2.stats]

SheetRow(kode, nama, brand, quantity, serial) ==
    [c \in {"Kode", "Nama Aset", "Brand", "Quantity", "Serial Number"} |->
        CASE c = "Kode" -> kode
          [] c = "Nama Aset" -> nama
          [] c = "Brand" -> brand
          [] c = "Quantity" -> quantity
          [] c = "Serial Number" -> serial]

\* spreadsheet rows: a code not stored by any other caller; the code A1 of the
\* other callers with other values and a blank before it; an empty code cell;
\* a blank code; a quantity that is no number
RowNew == SheetRow(A3, PC, Dell, Int_(1), S1)
RowA1 == SheetRow(<<" ", "A", "1">>, PC, NaN, Int_(2), NaN)
RowNoKode == SheetRow(NaN, TV, NaN, NaN, NaN)
RowBlankKode == SheetRow(<<" ">>, TV, Dell, Int_(1), NaN)
RowBadQuantity == SheetRow(A2, TV, Dell, <<"x">>, NaN)

\* the data frames pd.read_excel returns for the files imported
\* a row of a sheet that has no column Nama Aset
RowNoName == [c \in {"Kode", "Brand"} |-> IF c = "Kode" THEN A2 ELSE Dell]

Sheets ==
    { <<RowNew, RowA1>>,
      <<RowNoName>>,
      <<RowA1, RowBadQuantity>>,
      <<RowNoKode, RowBlankKode>>,
      <<RowNew, RowNew>>,
      <<RowA1>> }

(***************************************************************************)
(* helpers/db.py: the reads the dialog makes.                              *)
(***************************************************************************)
\* the characters of the model in the order of SQLite's BINARY collation
Alphabet ==
    <<" ", "-", ".", "/", "0", "1", "2", "3", "4", "5", "6", "7", "8", "9",
      "A", "B", "C", "D", "N", "P", "S", "T", "V", "X",
      "a", "e", "l", "n", "o", "v", "x">>
CharRank(c) == CHOOSE k \in 1..Len(Alphabet) : Alphabet[k] = c

RECURSIVE TextLess(_, _)
\* a < b for two TEXT values
TextLess(a, b) ==
    IF Len(b) = 0 THEN FALSE
    ELSE IF Len(a) = 0 THEN TRUE
    ELSE IF a[1] = b[1] THEN TextLess(Tail(a), Tail(b))
    ELSE CharRank(a[1]) < CharRank(b[1])

RowsOfAsset(inv, nama_aset) == {i \in 1..Len(inv) : inv[i].nama_aset = nama_aset}

\* a fault: the record of the asset inserted last, whatever its code
LatestInserted(nama_aset) ==
    LET rows == RowsOfAsset(fact_inventory, nama_aset)
    IN  IF rows = {} THEN NoRow
        ELSE <<fact_inventory[CHOOSE i \in rows : \A j \in rows : j <= i]>>

\* SELECT * FROM fact_inventory WHERE nama_aset = ? ORDER BY kode DESC LIMIT 1
get_latest_item(nama_aset) ==
    LET rows == RowsOfAsset(fact_inventory, nama_aset)
    IN  IF rows = {} THEN NoRow
        ELSE <<fact_inventory[CHOOSE i \in rows : \A j \in rows \ {i} :
                   TextLess(fact_inventory[j].kode, fact_inventory[i].kode)]>>

\* SELECT * FROM fact_inventory WHERE nama_aset = ? ORDER BY timestamp DESC LIMIT 1
get_inventory_template(nama_aset) ==
    LET rows == RowsOfAsset(fact_inventory, nama_aset)
    IN  IF rows = {} THEN NoRow
        ELSE <<fact_inventory[CHOOSE i \in rows : \A j \in rows : j <= i]>>

\* get_all_assets(), then [a['nama_aset'] for a in all_assets]
asset_names == {a.nama_aset : a \in dim_assets}

(***************************************************************************)
(* app.py: add_inventory_dialog.  One script run of the dialog with the    *)
(* Save button pressed: the reads, the validation, the bulk loop.          *)
(***************************************************************************)
Sessions == {1, 2}

DlgClosed ==
    [pc |-> "closed", selected_asset_name |-> <<>>, master_asset |-> NoRow,
     template |-> NoRow, kode |-> <<>>, serial_number |-> <<>>, quantity |-> 0,
     i |-> 0, current_kode |-> <<>>, current_serial |-> <<>>,
     created_kodes |-> <<>>, shown |-> <<>>]

\* get_default(key, master_key): the template's value unless it is NULL, then
\* the master asset's unless it is NULL, then ''
get_default(template, master_asset, key, master_key) ==
    IF template # NoRow /\ key \in DOMAIN template[1] /\ NotNa(template[1][key])
    THEN template[1][key]
    ELSE IF /\ master_asset # NoRow
            /\ master_key \in DOMAIN master_asset[1]
            /\ NotNa(master_asset[1][master_key])
    THEN master_asset[1][master_key]
    ELSE <<>>

\* next_kode, next_serial: the values the two text inputs start with
NextOf(latest_item, key) ==
    IF latest_item # NoRow /\ Truthy(latest_item[1][key])
    THEN increment_string(latest_item[1][key], 1)
    ELSE <<>>

\* what the user may leave or type in the widgets (the code input starts at
\* next_kode, which the user may keep)
BaseKodes == {<<>>, A1, <<"X">>}
BaseSerials == {<<>>, S1}
MaxQuantity == 3

\* lines 65-169: the script reads the catalog and the registry and the widgets
\* hold the user's values.  The loop reads template only when master_asset is
\* None (line 202), so dlg keeps it only then.
BulkOpen(w) ==
    /\ dlg[w].pc = "closed"
    /\ asset_names # {}
    /\ \E name \in asset_names :
       \E kode \in BaseKodes \cup {NextOf(get_latest_item(name), "kode")} :
       \E serial \in BaseSerials :
       \E quantity \in 1..MaxQuantity :
          dlg' = [dlg EXCEPT ![w] =
                     [DlgClosed EXCEPT !.pc = "form",
                                       !.selected_asset_name = name,
                                       !.master_asset = get_asset_by_name(name),
                                       !.template =
                                           IF get_asset_by_name(name) = NoRow
                                           THEN get_inventory_template(name)
                                           ELSE NoRow,
                                       !.kode = kode,
                                       !.serial_number = serial,
                                       !.quantity = quantity]]
    /\ UNCHANGED <<dim_assets, fact_inventory, ret, scanvars>>

\* a message on the page: its fixed text and the values formatted into it
\* (a count, or None; the codes it names)
Message(text, count, kodes) == [text |-> text, count |-> count, kodes |-> kodes]

\* a fault: a validation that does not look the code up
ValidationErrorsRequiredOnly(kode) ==
    IF ~Truthy(kode)
    THEN <<Message("Kode base value is required", None, <<>>)>> ELSE <<>>

\* lines 171-177: the list of violated checks
ValidationErrors(kode) ==
    (IF ~Truthy(kode)
     THEN <<Message("Kode base value is required", None, <<>>)>> ELSE <<>>)
    \o (IF Truthy(kode) /\ kode_exists(kode)
        THEN <<Message("Base Kode already exists", None, <<kode>>)>> ELSE <<>>)

\* lines 169-186: Save pressed; the errors are shown or the loop starts
BulkValidate(w) ==
    /\ dlg[w].pc = "form"
    /\ LET errors == ValidationErrors(dlg[w].kode)
       IN  dlg' = [dlg EXCEPT ![w] =
                      IF errors # <<>>
                      THEN [@ EXCEPT !.pc = "rejected", !.shown = errors]
                      ELSE [@ EXCEPT !.pc = "loop",
                                     !.current_kode = dlg[w].kode,
                                     !.current_serial = dlg[w].serial_number]]
    /\ UNCHANGED <<dim_assets, fact_inventory, ret, scanvars>>

\* a fault: a loop that steps the code by two
BulkNextKodeByTwo(i, current_kode) ==
    IF i > 0 THEN increment_string(current_kode, 2) ELSE current_kode

\* lines 191-194: the code and serial of iteration i
BulkNextKode(i, current_kode) ==
    IF i > 0 THEN increment_string(current_kode, 1) ELSE current_kode

BulkNextSerial(i, current_serial) ==
    IF i > 0 /\ Truthy(current_serial)
    THEN increment_string(current_serial, 1) ELSE current_serial

\* lines 196-227: the dict of iteration i
BulkInventoryData(d, kode, serial) ==
    [Kode |-> kode,
     Serial_Number |-> serial,
     Nama_Aset |-> d.selected_asset_name,
     Brand |-> IF d.master_asset # NoRow THEN d.master_asset[1].brand
               ELSE get_default(d.template, d.master_asset, "brand", "brand"),
     Quantity |-> Int_(1)]

\* line 237: st.error shows the exception's own text, for a refused insert
\* "UNIQUE constraint failed: fact_inventory.kode"
BulkErrorShown(err) == <<Message(err, None, <<>>)>>

\* lines 231-233: st.success with the quantity, the expander with the codes
BulkSuccessShown(quantity, created_kodes) ==
    <<Message("Successfully created items", Int_(quantity), <<>>),
      Message("Show Created IDs", None, created_kodes)>>

\* lines 189-237: one iteration of the bulk loop, and what follows it
BulkInsert(w) ==
    /\ dlg[w].pc = "loop"
    /\ LET d == dlg[w]
           kode == BulkNextKode(d.i, d.current_kode)
           serial == BulkNextSerial(d.i, d.current_serial)
       IN  /\ insert_inventory(BulkInventoryData(d, kode, serial))
           /\ dlg' = [dlg EXCEPT ![w] =
                  IF ret'.val # "ok"
                  THEN [@ EXCEPT !.pc = "failed",
                                 !.current_kode = kode,
                                 !.current_serial = serial,
                                 !.shown = BulkErrorShown(ret'.val)]
                  ELSE LET created == Append(d.created_kodes, kode)
                       IN  [@ EXCEPT !.pc = IF d.i + 1 = d.quantity
                                            THEN "success" ELSE "loop",
                                     !.i = d.i + 1,
                                     !.current_kode = kode,
                                     !.current_serial = serial,
                                     !.created_kodes = created,
                                     !.shown = IF d.i + 1 = d.quantity
                                               THEN BulkSuccessShown(d.quantity, created)
                                               ELSE <<>>]]

\* the dialog goes away (st.rerun after a success, or the user dismisses it)
BulkClose(w) ==
    /\ dlg[w].pc \in {"rejected", "failed", "success"}
    /\ dlg' = [dlg EXCEPT ![w] = DlgClosed]
    /\ UNCHANGED <<dim_assets, fact_inventory, ret, scanvars>>

(***************************************************************************)
(* helpers/automation.py: scan_directory and the scan result.              *)
(***************************************************************************)
UpperChars ==
    <<"A", "B", "C", "D", "E", "F", "G", "H", "I", "J", "K", "L", "M",
      "N", "O", "P", "Q", "R", "S", "T", "U", "V", "W", "X", "Y", "Z">>
LowerChars ==
    <<"a", "b", "c", "d", "e", "f", "g", "h", "i", "j", "k", "l", "m",
      "n", "o", "p", "q", "r", "s", "t", "u", "v", "w", "x", "y", "z">>

\* str.lower()
Lower(s) ==
    [k \in 1..Len(s) |->
        IF \E n \in 1..26 : UpperChars[n] = s[k]
        THEN LowerChars[CHOOSE n \in 1..26 : UpperChars[n] = s[k]]
        ELSE s[k]]

\* lines 182, 185-186: the spreadsheet value as compared
ExcelVal(raw) ==
    LET v == IF ~NotNa(raw) THEN <<>> ELSE Strip(Str(raw))
    IN  IF Lower(v) = <<"n", "a", "n">> THEN <<>> ELSE v

\* lines 183, 187-188: the stored value as compared
DbVal(raw) ==
    LET v == IF raw = None THEN <<>> ELSE Strip(Str(raw))
    IN  IF Lower(v) = <<"n", "a", "n">> THEN <<>> ELSE v

\* the text without a leading sign
Unsigned(s) == IF Len(s) > 0 /\ s[1] \in {"-", "+"} THEN Tail(s) ELSE s

\* float(s) succeeds; of the texts of the model, a sign, digits and at most
\* one point, with a digit among them
FloatText(s) ==
    LET body == Unsigned(s)
        dots == {k \in 1..Len(body) : body[k] = "."}
    IN  /\ Cardinality(dots) <= 1
        /\ \A k \in (1..Len(body)) \ dots : IsDigit(body[k])
        /\ Cardinality(dots) < Len(body)

RECURSIVE Pow10(_)
Pow10(n) == IF n = 0 THEN 1 ELSE 10 * Pow10(n - 1)

\* float(s) as num / 10^scale
FloatValue(s) ==
    LET body == Unsigned(s)
        digits == SelectSeq(body, LAMBDA c : c # ".")
        after == IF \E k \in 1..Len(body) : body[k] = "."
                 THEN Len(body) - CHOOSE k \in 1..Len(body) : body[k] = "."
                 ELSE 0
        n == StrToNat(digits)
    IN  [num |-> IF Len(s) > 0 /\ s[1] = "-" THEN 0 - n ELSE n,
         scale |-> after]

\* excel_num == db_num
FloatEqual(a, b) ==
    FloatValue(a).num * Pow10(FloatValue(b).scale)
        = FloatValue(b).num * Pow10(FloatValue(a).scale)

\* a fault: the two values compared as texts only
FieldChangedAsText(excel_val, db_val) == excel_val # db_val

\* lines 191-201: the two values differ, numbers compared as numbers
FieldChanged(excel_val, db_val) ==
    IF /\ excel_val # <<>> /\ db_val # <<>>
       /\ FloatText(excel_val) /\ FloatText(db_val)
       /\ FloatEqual(excel_val, db_val)
    THEN FALSE
    ELSE excel_val # db_val

\* lines 147-174: of the 26 pairs, those whose columns the rows of the model
\* carry
compare_fields == << <<"Brand", "brand">>, <<"Quantity", "quantity">> >>

\* lines 176-203: change_record, the changed fields in the order compared
ChangeRecord(row, db_row, kode) ==
    LET all == [k \in 1..Len(compare_fields) |->
                   [col |-> compare_fields[k][1],
                    excel |-> ExcelVal(GetOr(row, compare_fields[k][1], <<>>)),
                    db |-> DbVal(GetOr(db_row, compare_fields[k][2], <<>>))]]
    IN  [Kode |-> kode,
         changes |-> SelectSeq(all, LAMBDA c : FieldChanged(c.excel, c.db))]

\* a fault: a row_dict that keeps the code and drops the other columns
RowDictKodeOnly(row) ==
    [c \in {"Kode"} |-> IF NotNa(row[c]) THEN Str(row[c]) ELSE <<>>]

\* line 141: row_dict
RowDict(row) ==
    [c \in DOMAIN row |-> IF NotNa(row[c]) THEN Str(row[c]) ELSE <<>>]

\* lines 212-218: an entry of missing_rows
MissingRow(db_row) ==
    [Kode |-> db_row.kode, Nama_Aset |-> db_row.nama_aset,
     Serial_Number |-> db_row.serial_number]

\* a fault: every stored record listed as missing
MissingEveryRecord(db_inventory, excel_kodes) == db_inventory

\* a fault: the test of line 211 inverted, the records seen in the file listed
MissingSeenInFile(db_inventory, excel_kodes) ==
    SelectSeq(db_inventory, LAMBDA r : r.kode \in excel_kodes)

\* lines 209-211: the stored records whose code is not in excel_kodes
MissingFrom(db_inventory, excel_kodes) ==
    SelectSeq(db_inventory, LAMBDA r : r.kode \notin excel_kodes)

\* lines 129-231: the report of one asset file against db_inventory
FileReport(file, directory, db_inventory) ==
    LET keyed == [k \in 1..Len(file.rows) |->
                     [row |-> file.rows[k],
                      kode |-> Strip(Str(GetOr(file.rows[k], "Kode", <<>>)))]]
        fresh == SelectSeq(keyed, LAMBDA e :
                     e.kode # <<>> /\ ~KodeIn(db_inventory, e.kode))
        known == SelectSeq(keyed, LAMBDA e :
                     e.kode # <<>> /\ KodeIn(db_inventory, e.kode))
        records == [k \in 1..Len(known) |->
                       ChangeRecord(known[k].row,
                           CHOOSE r \in {db_inventory[n] : n \in 1..Len(db_inventory)} :
                               r.kode = known[k].kode,
                           known[k].kode)]
        excel_kodes == {keyed[k].kode : k \in 1..Len(keyed)} \ {<<>>}
        absent == MissingFrom(db_inventory, excel_kodes)
    IN  [filename |-> file.filename,
         directory |-> directory,
         total_rows |-> Len(file.rows),
         new_rows |-> [k \in 1..Len(fresh) |-> RowDict(fresh[k].row)],
         changed_rows |-> SelectSeq(records, LAMBDA c : c.changes # <<>>),
         missing_rows |-> [k \in 1..Len(absent) |-> MissingRow(absent[k])]]

\* lines 123-127: at least two of the three columns
IsAssetFile(columns) ==
    Cardinality(columns \cap {"Kode", "Nama Aset", "Serial Number"}) >= 2

\* a fault: every asset file is reported, with or without differences
ScanFileAlwaysReported(file, directory, db_inventory) ==
    IF Len(file.filename) >= 2 /\ file.filename[1] = "~" /\ file.filename[2] = "$"
    THEN <<>>
    ELSE IF ~file.readable THEN <<>>
    ELSE IF ~IsAssetFile(file.columns) THEN <<>>
    ELSE <<FileReport(file, directory, db_inventory)>>

\* lines 114-234: what one file adds to detected_issues
ScanFile(file, directory, db_inventory) ==
    IF Len(file.filename) >= 2 /\ file.filename[1] = "~" /\ file.filename[2] = "$"
    THEN <<>>
    ELSE IF ~file.readable THEN <<>>
    ELSE IF ~IsAssetFile(file.columns) THEN <<>>
    ELSE LET report == FileReport(file, directory, db_inventory)
         IN  IF \/ report.new_rows # <<>>
                \/ report.changed_rows # <<>>
                \/ report.missing_rows # <<>>
             THEN <<report>> ELSE <<>>

\* a fault: the loop over the files ends at the first file that cannot be read
RECURSIVE ScanFilesStopAtError(_, _, _, _)
ScanFilesStopAtError(files, k, directory, db_inventory) ==
    IF k > Len(files) THEN <<>>
    ELSE IF ~files[k].readable THEN <<>>
    ELSE ScanFile(files[k], directory, db_inventory)
             \o ScanFilesStopAtError(files, k + 1, directory, db_inventory)

RECURSIVE ScanFilesFrom(_, _, _, _)
ScanFilesFrom(files, k, directory, db_inventory) ==
    IF k > Len(files) THEN <<>>
    ELSE ScanFile(files[k], directory, db_inventory)
             \o ScanFilesFrom(files, k + 1, directory, db_inventory)

\* lines 109-112: a directory that does not exist is passed over
ScanOneDirectory(fs, directory, db_inventory) ==
    IF ~fs[directory].exists THEN <<>>
    ELSE ScanFilesFrom(fs[directory].files, 1, directory, db_inventory)

\* lines 94-95, 107-234: detected_issues over the default directories
DetectedIssues(fs, db_inventory) ==
    ScanOneDirectory(fs, ".", db_inventory)
        \o ScanOneDirectory(fs, "data", db_inventory)

SheetColumns == {"Kode", "Nama Aset", "Brand", "Quantity", "Serial Number"}

\* the .xlsx files found: an inventory sheet; one whose row for A1 has the
\* stored values written another way (a float 2.0 for the stored 2, the text
\* NaN for the stored NULL); one whose row for A1 has other values, with the
\* row of A3 twice; one whose rows have an empty and a blank code cell; an
\* Excel lock file; a file that cannot be read; a sheet of something else
FileInv ==
    [filename |-> <<"i">>, readable |-> TRUE, columns |-> SheetColumns,
     rows |-> <<RowNew, RowA1>>]
FileSame ==
    [filename |-> <<"s">>, readable |-> TRUE, columns |-> SheetColumns,
     rows |-> <<SheetRow(A1, PC, <<"N", "a", "N">>, Float_(2, <<"0">>), NaN)>>]
FileChanged ==
    [filename |-> <<"d">>, readable |-> TRUE, columns |-> SheetColumns,
     rows |-> <<SheetRow(A1, PC, Dell, Int_(3), NaN), RowNew, RowNew>>]
FileBlank ==
    [filename |-> <<"b">>, readable |-> TRUE, columns |-> SheetColumns,
     rows |-> <<RowNoKode, RowBlankKode>>]
FileLock ==
    [filename |-> <<"~", "$", "i">>, readable |-> TRUE, columns |-> SheetColumns,
     rows |-> <<RowNew>>]
FileCorrupt ==
    [filename |-> <<"c">>, readable |-> FALSE, columns |-> {}, rows |-> <<>>]
FileOther ==
    [filename |-> <<"o">>, readable |-> TRUE, columns |-> {"Kode"},
     rows |-> <<[c \in {"Kode"} |-> A2]>>]

Directory(files) == [exists |-> TRUE, files |-> files]
NoDirectory == [exists |-> FALSE, files |-> <<>>]

\* what the two directories hold when a run lists them
FileSystems ==
    { [d \in {".", "data"} |-> IF d = "." THEN Directory(<<>>) ELSE NoDirectory],
      [d \in {".", "data"} |->
          IF d = "." THEN Directory(<<FileInv>>)
          ELSE Directory(<<FileLock, FileCorrupt, FileOther>>)],
      [d \in {".", "data"} |->
          IF d = "." THEN Directory(<<FileSame>>) ELSE NoDirectory],
      [d \in {".", "data"} |->
          IF d = "." THEN Directory(<<FileCorrupt, FileChanged>>)
          ELSE Directory(<<FileBlank>>)] }

\* lines 22-26
ScanResultsInitial ==
    [detected_files |-> <<>>, last_scan |-> None, status |-> "ok"]

\* the run's locals; fs is history, <<>> or <<the directories the run listed>>,
\* and so is last: run, fs and db_inventory of the latest two runs that
\* published, the latest first
ScanIdle ==
    [pc |-> "idle", db_inventory |-> <<>>, detected_issues |-> <<>>, run |-> 0,
     fs |-> <<>>, last |-> <<>>]

\* datetime.now().isoformat() in run n
Timestamp(n) == <<"t", n>>

\* the runs of scan_directory in the model
MaxScans == 2

\* a fault: the tables are dropped and created again
CreateTablesAnew(dim, inv) == [dim |-> {}, inv |-> <<>>]

\* db.py lines 30-103, run by AssetDatabase(DB_FILE): both statements are
\* CREATE TABLE IF NOT EXISTS, which leaves a table that exists, its columns
\* and its rows as they are
create_tables(dim, inv) == [dim |-> dim, inv |-> inv]

\* lines 84-97: the scheduler or a caller starts a run, which opens the
\* database with AssetDatabase(DB_FILE)
ScanStart ==
    /\ scan.pc = "idle"
    /\ scan.run < MaxScans
    /\ scan' = [ScanIdle EXCEPT !.pc = "load", !.run = scan.run + 1,
                                !.last = scan.last]
    /\ dim_assets' = create_tables(dim_assets, fact_inventory).dim
    /\ fact_inventory' = create_tables(dim_assets, fact_inventory).inv
    /\ UNCHANGED <<ret, dlg, txn,
                   has_is_deleted, SCAN_RESULTS, observed, published>>

\* lines 99-105: the registry is read into db_inventory.  The rows the store
\* API inserts leave is_deleted NULL, so the WHERE clause keeps them all.
ScanLoad ==
    /\ scan.pc = "load"
    /\ has_is_deleted
    /\ scan' = [scan EXCEPT !.pc = "files", !.db_inventory = fact_inventory]
    /\ UNCHANGED <<dim_assets, fact_inventory, ret, dlg, txn,
                   has_is_deleted, SCAN_RESULTS, observed, published>>

\* a fault: the time of the run is published before the registry is read
ScanLoadFailsAfterStamp ==
    /\ scan.pc = "load"
    /\ scan' = [scan EXCEPT !.pc = "idle"]
    /\ SCAN_RESULTS' = [SCAN_RESULTS EXCEPT !.last_scan = Timestamp(scan.run)]
    /\ UNCHANGED <<dim_assets, fact_inventory, ret, dlg, txn,
                   has_is_deleted, observed, published>>

\* lines 101-103 raise sqlite3.OperationalError: every time when the table
\* has no is_deleted column (no such column), and at some times when it has
\* (the database is locked by a writer for longer than the timeout of
\* sqlite3.connect).  Nothing catches it in scan_directory: the run ends
\* there and SCAN_RESULTS stays as it was
ScanLoadFails ==
    /\ scan.pc = "load"
    /\ scan' = [scan EXCEPT !.pc = "idle"]
    /\ UNCHANGED <<dim_assets, fact_inventory, ret, dlg, txn,
                   has_is_deleted, SCAN_RESULTS, observed, published>>

\* lines 107-234: the files are listed, read and compared
ScanFilesIn(fs) ==
    /\ scan.pc = "files"
    /\ scan' = [scan EXCEPT !.pc = "publish_last_scan",
                            !.fs = <<fs>>,
                            !.detected_issues = DetectedIssues(fs, scan.db_inventory)]
    /\ UNCHANGED <<dim_assets, fact_inventory, ret, dlg, txn,
                   has_is_deleted, SCAN_RESULTS, observed, published>>

ScanFiles == \E fs \in FileSystems : ScanFilesIn(fs)

\* a fault: a status that warns whatever was detected
ScanStatusAlwaysWarning(detected_issues) == "warning"

\* line 238: "warning" if detected_issues else "ok"
ScanStatus(detected_issues) == IF detected_issues # <<>> THEN "warning" ELSE "ok"

\* the result of the run as lines 236-238 leave it
ScanResultOfRun(sc) ==
    [detected_files |-> sc.detected_issues,
     last_scan |-> Timestamp(sc.run),
     status |-> ScanStatus(sc.detected_issues)]

\* line 236
PublishLastScan ==
    /\ scan.pc = "publish_last_scan"
    /\ SCAN_RESULTS' = [SCAN_RESULTS EXCEPT !.last_scan = Timestamp(scan.run)]
    /\ scan' = [scan EXCEPT !.pc = "publish_detected_files"]
    /\ published' = published \cup {ScanResultOfRun(scan)}
    /\ UNCHANGED <<dim_assets, fact_inventory, ret, dlg, txn, has_is_deleted, observed>>

\* line 237
PublishDetectedFiles ==
    /\ scan.pc = "publish_detected_files"
    /\ SCAN_RESULTS' = [SCAN_RESULTS EXCEPT !.detected_files = scan.detected_issues]
    /\ scan' = [scan EXCEPT !.pc = "publish_status"]
    /\ UNCHANGED <<dim_assets, fact_inventory, ret, dlg, txn,
                   has_is_deleted, observed, published>>

\* a fault: the run ends without line 238, the status stays what it was
PublishStatusSkipped ==
    /\ scan.pc = "publish_status"
    /\ scan' = [scan EXCEPT !.pc = "idle",
                            !.last = <<[run |-> scan.run, fs |-> scan.fs,
                                        db_inventory |-> scan.db_inventory]>>
                                     \o (IF scan.last = <<>> THEN <<>>
                                         ELSE <<scan.last[1]>>)]
    /\ UNCHANGED <<dim_assets, fact_inventory, ret, dlg, txn,
                   has_is_deleted, SCAN_RESULTS, observed, published>>

\* line 238
PublishStatus ==
    /\ scan.pc = "publish_status"
    /\ SCAN_RESULTS' =
           [SCAN_RESULTS EXCEPT !.status = ScanStatus(scan.detected_issues)]
    /\ scan' = [scan EXCEPT !.pc = "idle",
                            !.last = <<[run |-> scan.run, fs |-> scan.fs,
                                        db_inventory |-> scan.db_inventory]>>
                                     \o (IF scan.last = <<>> THEN <<>>
                                         ELSE <<scan.last[1]>>)]
    /\ UNCHANGED <<dim_assets, fact_inventory, ret, dlg, txn,
                   has_is_deleted, observed, published>>

\* lines 240-241: a caller, in the thread of a page, gets the dict and reads
\* its three fields
get_latest_scan_results ==
    /\ observed' = SCAN_RESULTS
    /\ UNCHANGED <<dim_assets, fact_inventory, ret, dlg, txn,
                   has_is_deleted, SCAN_RESULTS, scan, published>>

(***************************************************************************)
(* A call of ingest_from_excel or upsert_asset_and_inventory followed      *)
(* statement by statement.  The call opens a connection of its own         *)
(* (get_connection), its first INSERT begins a transaction, and the tables *)
(* as the connection sees them are txn.dim and txn.inv; dim_assets and     *)
(* fact_inventory are the committed tables, which every other connection   *)
(* reads.  While the transaction is open SQLite lets no other connection   *)
(* write.  txn.before and txn.reads are history: the committed tables when *)
(* the transaction began, and what readers got since.                      *)
(***************************************************************************)
TxnIdle ==
    [pc |-> "none", op |-> "none", arg |-> <<>>, dim |-> {}, inv |-> <<>>,
     k |-> 0, val |-> <<>>, before |-> [dim |-> {}, inv |-> <<>>], reads |-> {}]

\* the call begins: a connection of its own, and the transaction
TxnBegin(op, arg) ==
    /\ txn.pc = "none"
    /\ txn' = [TxnIdle EXCEPT
                  !.pc = "statement", !.op = op, !.arg = arg, !.k = 1,
                  !.dim = dim_assets, !.inv = fact_inventory,
                  !.val = [assets_added |-> 0, inventory_added |-> 0, errors |-> <<>>],
                  !.before = [dim |-> dim_assets, inv |-> fact_inventory]]
    /\ UNCHANGED <<dim_assets, fact_inventory, ret, dlg,
                   has_is_deleted, SCAN_RESULTS, scan, observed, published>>

\* the next statement of the call, on the tables of its connection: for the
\* import the loop over the definitions and then one row of the registry
\* loop at a time; for the upsert the INSERT into dim_assets and then the
\* INSERT into fact_inventory, which may raise
TxnStatement ==
    /\ txn.pc = "statement"
    /\ txn' =
         IF txn.op = "ingest_from_excel"
         THEN IF txn.k = 1
              THEN LET step1 == IngestAssets(txn.arg, 1, txn.dim, {}, txn.val)
                   IN  [txn EXCEPT !.dim = step1.dim, !.val = step1.stats, !.k = 2]
              ELSE IF txn.k - 1 <= Len(txn.arg)
              THEN LET step2 == IngestInventory(<<txn.arg[txn.k - 1]>>, 1,
                                                txn.inv, txn.val)
                   IN  [txn EXCEPT !.inv = step2.inv, !.val = step2.stats,
                                   !.k = txn.k + 1]
              ELSE [txn EXCEPT !.pc = "commit"]
         ELSE IF txn.k = 1
              THEN [txn EXCEPT !.dim = UpsertCatalog(txn.dim, txn.arg[1]), !.k = 2]
              ELSE LET row == UpsertInventoryRow(
                                  AssetByName(txn.before.dim, txn.arg[1].nama_aset),
                                  txn.arg[2])
                       err == InventoryInsertError(txn.inv, row)
                   IN  IF err = "ok"
                       THEN [txn EXCEPT !.inv = Append(txn.inv, row),
                                        !.val = err, !.pc = "commit"]
                       ELSE [txn EXCEPT !.val = err, !.pc = "rollback"]
    /\ UNCHANGED <<dim_assets, fact_inventory, ret, dlg,
                   has_is_deleted, SCAN_RESULTS, scan, observed, published>>

\* conn.commit(): the tables of the connection become the committed tables
TxnCommit ==
    /\ txn.pc = "commit"
    /\ dim_assets' = txn.dim
    /\ fact_inventory' = txn.inv
    /\ ret' = [op |-> txn.op, arg |-> txn.arg, val |-> txn.val]
    /\ txn' = [txn EXCEPT !.pc = "done"]
    /\ UNCHANGED <<dlg, has_is_deleted, SCAN_RESULTS, scan, observed, published>>

\* conn.rollback() and raise: the committed tables stay
TxnRollback ==
    /\ txn.pc = "rollback"
    /\ ret' = [op |-> txn.op, arg |-> txn.arg, val |-> txn.val]
    /\ txn' = [txn EXCEPT !.pc = "done", !.dim = txn.before.dim,
                          !.inv = txn.before.inv]
    /\ UNCHANGED <<dim_assets, fact_inventory, dlg,
                   has_is_deleted, SCAN_RESULTS, scan, observed, published>>

\* the call has returned or raised
TxnEnd ==
    /\ txn.pc = "done"
    /\ txn' = TxnIdle
    /\ UNCHANGED <<dim_assets, fact_inventory, ret, dlg,
                   has_is_deleted, SCAN_RESULTS, scan, observed, published>>

\* a fault: a reader that gets the tables of the writer's connection
ReadViewUncommitted == [dim |-> txn.dim, inv |-> txn.inv]

\* what a SELECT of another connection reads: the committed tables
ReadView == [dim |-> dim_assets, inv |-> fact_inventory]

\* a reader (get_all_inventory, kode_exists, the load of a scan) on a
\* connection of its own, while the call runs or right after it
TxnRead ==
    /\ txn.pc # "none"
    /\ txn' = [txn EXCEPT !.reads = @ \cup {ReadView}]
    /\ UNCHANGED <<dim_assets, fact_inventory, ret, dlg,
                   has_is_deleted, SCAN_RESULTS, scan, observed, published>>

\* the program after start-up on a database file with empty tables
InitProgram ==
    /\ txn = TxnIdle
    /\ dim_assets = {}
    /\ fact_inventory = <<>>
    /\ ret = [op |-> "init", arg |-> <<>>, val |-> "ok"]
    /\ dlg = [w \in Sessions |-> DlgClosed]
    /\ SCAN_RESULTS = ScanResultsInitial
    /\ scan = ScanIdle
    /\ observed = ScanResultsInitial
    /\ published = {ScanResultsInitial}

\* db.py lines 30-103: create_tables on a new file makes fact_inventory
\* without a column is_deleted
Init == InitProgram /\ has_is_deleted = FALSE

\* assets.db is a file the program opens: CREATE TABLE IF NOT EXISTS keeps a
\* fact_inventory table that is already there, with the columns it has
InitScan == InitProgram /\ has_is_deleted \in BOOLEAN

\* the registry holds at most this many rows in the model
MaxInventory == 3

Bounded == Len(fact_inventory') <= MaxInventory

(***************************************************************************)
(* Spec: the callers of the store API, one call at a time.                 *)
(***************************************************************************)
Next ==
    \/ \E data \in InventoryInputs :
          insert_inventory(data) /\ Bounded /\ UNCHANGED <<dlg, scanvars>>
    \/ \E kode \in DeleteInputs : delete_inventory(kode) /\ UNCHANGED <<dlg, scanvars>>
    \/ \E data \in AssetInputs : insert_asset(data) /\ UNCHANGED <<dlg, scanvars>>
    \/ \E u \in UpsertInputs :
          upsert_asset_and_inventory(u[1], u[2]) /\ Bounded /\ UNCHANGED <<dlg, scanvars>>
    \/ \E df \in Sheets : ingest_from_excel(df) /\ Bounded /\ UNCHANGED <<dlg, scanvars>>

Spec == Init /\ [][Next]_vars

(***************************************************************************)
(* SpecBulk: one session runs the dialog while other callers of the store  *)
(* insert, delete and import.                                              *)
(***************************************************************************)
\* what the other callers pass: a catalog entry, an upsert of the code the
\* loop derives second from A1, that code to delete, and an import of the base
\* code A1
OtherAssetInputs == {[nama_aset |-> PC, brand |-> Dell]}
OtherDeleteInputs == {A2}
OtherUpsertInputs ==
    { <<[nama_aset |-> PC], [kode |-> A2, nama_aset |-> PC, quantity |-> Int_(1)]>> }
OtherSheets == {<<RowA1>>}

NextBulk ==
    \/ BulkOpen(1)
    \/ BulkValidate(1)
    \/ BulkInsert(1) /\ Bounded /\ UNCHANGED scanvars
    \/ BulkClose(1)
    \/ \E data \in OtherAssetInputs : insert_asset(data) /\ UNCHANGED <<dlg, scanvars>>
    \/ \E kode \in OtherDeleteInputs : delete_inventory(kode) /\ UNCHANGED <<dlg, scanvars>>
    \/ \E u \in OtherUpsertInputs :
          upsert_asset_and_inventory(u[1], u[2]) /\ Bounded /\ UNCHANGED <<dlg, scanvars>>
    \/ \E df \in OtherSheets : ingest_from_excel(df) /\ Bounded /\ UNCHANGED <<dlg, scanvars>>

SpecBulk == Init /\ [][NextBulk]_vars

(***************************************************************************)
(* SpecScan: the runs of scan_directory in the scheduler's thread, a page  *)
(* that reads the scan result, and callers that change the registry.       *)
(***************************************************************************)
ScanSheets == {<<RowNew, RowA1>>}
ScanDeleteInputs == {A3}

NextScan ==
    \/ ScanStart
    \/ ScanLoad
    \/ ScanLoadFails
    \/ ScanFiles
    \/ PublishLastScan
    \/ PublishDetectedFiles
    \/ PublishStatus
    \/ get_latest_scan_results
    \/ \E df \in ScanSheets :
          ingest_from_excel(df) /\ Bounded /\ UNCHANGED <<dlg, scanvars>>
    \/ \E kode \in ScanDeleteInputs :
          delete_inventory(kode) /\ UNCHANGED <<dlg, scanvars>>

SpecScan == InitScan /\ [][NextScan]_vars

(***************************************************************************)
(* SpecTxn: an import or an upsert followed statement by statement, readers *)
(* on connections of their own, and deletes between the calls.             *)
(***************************************************************************)
NextTxn ==
    \/ \E df \in Sheets : TxnBegin("ingest_from_excel", df)
    \/ \E input \in UpsertInputs : TxnBegin("upsert_asset_and_inventory", input)
    \/ TxnStatement
    \/ TxnCommit /\ Bounded
    \/ TxnRollback
    \/ TxnEnd
    \/ TxnRead
    \/ \E kode \in DeleteInputs :
          txn.pc = "none" /\ delete_inventory(kode) /\ UNCHANGED <<dlg, scanvars>>

SpecTxn == Init /\ [][NextTxn]_vars

(***************************************************************************)
(* SpecCatalog: the operations that are not master-data edits: a scan, a   *)
(* bulk creation, deletes and imports (which add the definitions).         *)
(***************************************************************************)
CatalogSheets == {<<RowNew, RowA1>>, <<RowA1>>}
CatalogDeleteInputs == {A1}

\* one scan run; the user keeps A2 as the base code, enters the serial S1 and
\* asks for one or two records (the second, A3, is the code of an import)
NextCatalog ==
    \/ ScanStart /\ scan.run = 0
    \/ ScanLoad
    \/ ScanLoadFails
    \/ ScanFiles
    \/ PublishLastScan
    \/ PublishDetectedFiles
    \/ PublishStatus
    \/ /\ BulkOpen(1)
       /\ dlg'[1].kode = A2
       /\ dlg'[1].serial_number = S1
       /\ dlg'[1].quantity <= 2
    \/ BulkValidate(1)
    \/ BulkInsert(1) /\ Bounded /\ UNCHANGED scanvars
    \/ BulkClose(1)
    \/ \E df \in CatalogSheets :
          ingest_from_excel(df) /\ Bounded /\ UNCHANGED <<dlg, scanvars>>
    \/ \E kode \in CatalogDeleteInputs :
          delete_inventory(kode) /\ UNCHANGED <<dlg, scanvars>>

SpecCatalog == InitScan /\ [][NextCatalog]_vars

(***************************************************************************)
(* SpecIncr: calls of increment_string on the texts of up to MaxLen        *)
(* characters over IncrChars, with a step from -1 to MaxSteps.             *)
(***************************************************************************)
IncrChars == {"v", "0", "9", "-"}
MaxLen == 3
MaxSteps == 2

IncrInputs == UNION {[1..n -> IncrChars] : n \in 0..MaxLen}
IncrSteps == (0 - 1)..MaxSteps

IncrementCall ==
    /\ \E s \in IncrInputs, steps \in IncrSteps :
          ret' = [op |-> "increment_string",
                  arg |-> [s |-> s, steps |-> steps],
                  val |-> increment_string(s, steps)]
    /\ UNCHANGED <<dim_assets, fact_inventory, dlg, scanvars>>

NextIncr == IncrementCall

SpecIncr == Init /\ [][NextIncr]_vars

(***************************************************************************)
(* Claims.                                                                 *)
(***************************************************************************)

\* C9: inserting a record whose code C is not in the store makes
\* kode_exists(C) true, and delete_inventory(C) makes kode_exists(C) false.
C9_InsertThenExists_DeleteThenAbsent ==
    [][ /\ \A data \in InventoryInputs :
            (~kode_exists(data.Kode) /\ insert_inventory(data))
                => KodeIn(fact_inventory', data.Kode)
        /\ \A kode \in DeleteInputs :
            delete_inventory(kode) => ~KodeIn(fact_inventory', kode) ]_vars

\* C9 witness: a code that was inserted has just been deleted.
C9_Witness ==
    /\ ret.op = "delete_inventory"
    /\ ret.val = "True"
    /\ ~kode_exists(ret.arg)

\* C10: insert_inventory of a record whose code is already stored raises the
\* duplicate-key error and leaves the registry as it was.
C10_DuplicateInsertFails ==
    [][ \A data \in InventoryInputs :
            (kode_exists(data.Kode) /\ insert_inventory(data))
                => (ret'.val = "IntegrityError" /\ fact_inventory' = fact_inventory) ]_vars

\* C10 witness: an insert of a stored code has just been refused.
C10_Witness ==
    /\ ret.op = "insert_inventory"
    /\ ret.val = "IntegrityError"
    /\ kode_exists(ret.arg.Kode)


\* C1: no two records of the registry have the same code, whatever the
\* insert_inventory calls of the bulk creation, the imports, the upserts and
\* the deletes did and however they interleaved.
C1_KodeUnique ==
    \A i, j \in 1..Len(fact_inventory) :
        fact_inventory[i].kode = fact_inventory[j].kode => i = j

\* C1 witness: the registry holds several records and an insert of a code it
\* holds has just been refused.
C1_Witness ==
    /\ Len(fact_inventory) >= 2
    /\ ret.op = "insert_inventory"
    /\ ret.val = "IntegrityError"
    /\ KodeIn(fact_inventory, ret.arg.Kode)

\* C2: a reader of the scan result sees the previous complete result or the
\* new complete result of a run, never a mix of the two.
C2_ReaderSeesCompleteResult == observed \in published

\* the texts of the messages shown
ShownTexts(shown) == {shown[k].text : k \in 1..Len(shown)}

\* C3: when the insert of iteration k of a bulk creation fails, the registry
\* keeps the k records inserted before it, no later insert is attempted, and
\* the failure shown reports the count k and the code that failed.
C3_FailureReportsCountAndKode ==
    [][ \A w \in Sessions :
          /\ (BulkInsert(w) /\ dlg'[w].pc = "failed") =>
                /\ fact_inventory' = fact_inventory
                /\ dlg'[w].created_kodes = dlg[w].created_kodes
                /\ Len(dlg'[w].created_kodes) = dlg[w].i
                /\ \E k \in 1..Len(dlg'[w].shown) :
                      dlg'[w].shown[k].count = Int_(dlg[w].i)
                /\ \E k \in 1..Len(dlg'[w].shown) :
                      \E n \in 1..Len(dlg'[w].shown[k].kodes) :
                          dlg'[w].shown[k].kodes[n] = dlg'[w].current_kode
          /\ dlg[w].pc = "failed" => dlg'[w].pc \in {"failed", "closed"} ]_vars

RECURSIVE IncrementTimes(_, _)
\* inc applied n times
IncrementTimes(s, n) ==
    IF n = 0 THEN s ELSE increment_string(IncrementTimes(s, n - 1), 1)

C5_InvalidBaseRejected ==
    [][ \A w \in Sessions :
          /\ (BulkValidate(w) /\ (dlg[w].kode = <<>> \/ kode_exists(dlg[w].kode))) =>
                /\ dlg'[w].pc = "rejected"
                /\ ShownTexts(dlg'[w].shown) =
                       (IF dlg[w].kode = <<>>
                        THEN {"Kode base value is required"} ELSE {})
                       \cup (IF kode_exists(dlg[w].kode)
                             THEN {"Base Kode already exists"} ELSE {})
                /\ fact_inventory' = fact_inventory
                /\ dim_assets' = dim_assets
          /\ dlg[w].pc = "rejected" => dlg'[w].pc \in {"rejected", "closed"} ]_vars

\* C5 witness: a Save with the stored code A1 was rejected.
C5_Witness ==
    /\ dlg[1].pc = "rejected"
    /\ dlg[1].kode = A1
    /\ kode_exists(A1)
    /\ ShownTexts(dlg[1].shown) = {"Base Kode already exists"}

\* C6: when another caller stored the code of an iteration after the
\* validation and before the workflow's insert, that insert fails with the
\* uniqueness violation, the other caller's record stays as it is, and the
\* workflow stops at that iteration.
C6_ConcurrentInsertRefused ==
    [][ \A w \in Sessions :
          /\ (BulkInsert(w) /\ kode_exists(IncrementTimes(dlg[w].kode, dlg[w].i))) =>
                /\ ret'.val = "IntegrityError"
                /\ fact_inventory' = fact_inventory
                /\ dlg'[w].pc = "failed"
                /\ dlg'[w].i = dlg[w].i
                /\ dlg'[w].created_kodes = dlg[w].created_kodes
          /\ dlg[w].pc = "failed" => dlg'[w].pc \in {"failed", "closed"} ]_vars

\* C6 witness: the base code passed the validation, an import stored it (with
\* quantity 2 and no serial number), and the workflow's first insert failed.
C6_Witness ==
    /\ dlg[1].pc = "failed"
    /\ dlg[1].i = 0
    /\ dlg[1].current_kode = A1
    /\ ret.val = "IntegrityError"
    /\ \E k \in 1..Len(fact_inventory) :
          /\ fact_inventory[k].kode = A1
          /\ fact_inventory[k].quantity = Int_(2)
          /\ fact_inventory[k].serial_number = None

\* C7: an import leaves every record the registry held before it as it was,
\* also when the sheet has a row with the code of that record.
C7_ImportNeverOverwrites ==
    [][ \A df \in Sheets :
          ingest_from_excel(df) =>
             /\ Len(fact_inventory') >= Len(fact_inventory)
             /\ \A k \in 1..Len(fact_inventory) :
                   fact_inventory'[k] = fact_inventory[k] ]_vars

\* C7 witness: a sheet with a row for A1 (quantity 2) was imported and the
\* record A1 stored before (quantity 1, serial S1) is still there.
C7_Witness ==
    /\ ret.op = "ingest_from_excel"
    /\ ret.arg = <<RowA1>>
    /\ ret.val.inventory_added = 0
    /\ \E k \in 1..Len(fact_inventory) :
          /\ fact_inventory[k].kode = A1
          /\ fact_inventory[k].quantity = Int_(1)
          /\ fact_inventory[k].serial_number = S1

\* C8: every record of the registry has quantity 1.
C8_QuantityAlwaysOne ==
    \A i \in 1..Len(fact_inventory) : fact_inventory[i].quantity = Int_(1)

\* C11: the catalog holds at most one definition per name after any calls of
\* insert_asset, ingest_from_excel and upsert_asset_and_inventory, and
\* insert_asset of a name the catalog holds raises the duplicate-key error and
\* leaves the catalog as it was.
C11_OneDefinitionPerName ==
    [][ /\ \A a, b \in dim_assets' : a.nama_aset = b.nama_aset => a = b
        /\ \A data \in AssetInputs :
              ((\E a \in dim_assets : a.nama_aset = data.nama_aset)
                   /\ insert_asset(data))
                 => (ret'.val = "IntegrityError" /\ dim_assets' = dim_assets) ]_vars

\* C11 witness: insert_asset of PC with another brand than the stored
\* definition of PC has was refused.
C11_Witness ==
    /\ ret.op = "insert_asset"
    /\ ret.val = "IntegrityError"
    /\ \E a \in dim_assets :
          a.nama_aset = ret.arg.nama_aset /\ a.brand # ret.arg.brand

\* C12: delete_inventory(code) returns true exactly when a record with the
\* code was stored, and then that record is gone; it returns false and
\* changes nothing when the code is absent; every other record stays, in
\* order; the catalog is never changed.
C12_DeleteRemovesOnlyThatRecord ==
    [][ \A kode \in DeleteInputs :
          delete_inventory(kode) =>
             LET stored == \E k \in 1..Len(fact_inventory) :
                              fact_inventory[k].kode = kode
                 others == {k \in 1..Len(fact_inventory) :
                              fact_inventory[k].kode # kode}
             IN  /\ (ret'.val = "True") = stored
                 /\ ret'.val \in {"True", "False"}
                 /\ ~stored => fact_inventory' = fact_inventory
                 /\ \A k \in 1..Len(fact_inventory') : fact_inventory'[k].kode # kode
                 /\ Len(fact_inventory') = Cardinality(others)
                 /\ \A k \in others :
                       fact_inventory'[Cardinality({j \in others : j <= k})]
                           = fact_inventory[k]
                 /\ dim_assets' = dim_assets ]_vars

\* C12 witness: a stored record was deleted and another record is still
\* there, with a catalog that is not empty.
C12_Witness ==
    /\ ret.op = "delete_inventory"
    /\ ret.val = "True"
    /\ Len(fact_inventory) >= 1
    /\ dim_assets # {}

\* the decimal digits
Digits == {"0", "1", "2", "3", "4", "5", "6", "7", "8", "9"}

\* t with zeros before it up to the width w, and t itself when it is longer
LeftPadded(t, w) ==
    IF Len(t) >= w THEN t
    ELSE [k \in 1..w |-> IF k <= w - Len(t) THEN "0" ELSE t[k - (w - Len(t))]]

\* C14: increment(s, steps) replaces the last maximal run of decimal digits
\* of s by the decimal rendering of its value plus steps (a sum that is not
\* negative), left-padded with zeros to the length of the run and never
\* truncated, and leaves the text before and after the run as it is; "v09"
\* gives "v10" and "v99" gives "v100".
C14_IncrementSplicesLastRun ==
    /\ ret.op = "increment_string" =>
          LET s == ret.arg.s
              steps == ret.arg.steps
          IN  \A b, e \in 1..Len(s) :
                 ( /\ b <= e
                   /\ \A k \in b..e : s[k] \in Digits
                   /\ \A k \in (e + 1)..Len(s) : s[k] \notin Digits
                   /\ (b = 1 \/ s[b - 1] \notin Digits)
                   /\ StrToNat(SubSeq(s, b, e)) + steps >= 0 )
                 => ret.val = SubSeq(s, 1, b - 1)
                                \o LeftPadded(NatToStr(StrToNat(SubSeq(s, b, e)) + steps),
                                              e - b + 1)
                                \o SubSeq(s, e + 1, Len(s))
    /\ increment_string(<<"v", "0", "9">>, 1) = <<"v", "1", "0">>
    /\ increment_string(<<"v", "9", "9">>, 1) = <<"v", "1", "0", "0">>

\* C14 witness: "v99" was incremented by 1 and gave "v100".
C14_Witness ==
    /\ ret.op = "increment_string"
    /\ ret.arg.s = <<"v", "9", "9">>
    /\ ret.arg.steps = 1
    /\ ret.val = <<"v", "1", "0", "0">>

\* C15: for a text without a decimal digit, the empty text included,
\* increment returns the text as it is, whatever the step.
C15_IncrementWithoutDigits ==
    (ret.op = "increment_string" /\ \A k \in 1..Len(ret.arg.s) : ret.arg.s[k] \notin Digits)
        => ret.val = ret.arg.s

\* C15 witness: "v-" was incremented by 2 and came back as it was.
C15_Witness ==
    /\ ret.op = "increment_string"
    /\ ret.arg.s = <<"v", "-">>
    /\ ret.arg.steps = 2
    /\ ret.val = <<"v", "-">>

\* C13: no scan, bulk creation, delete_inventory or import removes a
\* definition from the catalog or changes one: every definition of the
\* catalog is in it, with the same values, after each of their steps.
C13_DefinitionsKept ==
    [][ \A a \in dim_assets : a \in dim_assets' ]_vars

\* C13 witness: the definition of PC (without a brand) is as it was after an
\* import of a sheet whose first row for PC has the brand Dell, a bulk
\* creation and a scan.
C13_Witness ==
    /\ ret.op = "ingest_from_excel"
    /\ ret.arg = <<RowNew, RowA1>>
    /\ [nama_aset |-> PC, brand |-> None] \in dim_assets
    /\ dlg[1].pc = "success"
    /\ scan.run >= 1
    /\ scan.pc = "idle"

(***************************************************************************)
(* The reports of a scan (C16 to C20).  They are read off the state after  *)
(* the run compared the files: scan.fs holds the directories it listed,    *)
(* scan.db_inventory the snapshot, scan.detected_issues the reports.       *)
(***************************************************************************)
ScanDirectories == {".", "data"}

\* the run has listed and compared the files
FilesCompared == scan.fs # <<>>

\* the files of directory d that the run listed
FilesListed(d) ==
    IF scan.fs[1][d].exists
    THEN {scan.fs[1][d].files[k] : k \in 1..Len(scan.fs[1][d].files)}
    ELSE {}

\* a file the scan reads as an inventory sheet: not a lock file, readable,
\* with two of the three identifying columns
AssetFileRead(file) ==
    /\ ~(Len(file.filename) >= 2 /\ SubSeq(file.filename, 1, 2) = <<"~", "$">>)
    /\ file.readable
    /\ Cardinality(file.columns \cap {"Kode", "Nama Aset", "Serial Number"}) >= 2

\* the indexes of the reports on file in directory d
ReportsOn(d, file) ==
    {k \in 1..Len(scan.detected_issues) :
        /\ scan.detected_issues[k].filename = file.filename
        /\ scan.detected_issues[k].directory = d}

\* the three lists of the file: those of its report, and empty lists when the
\* run made no report on it
ListsOf(d, file) ==
    IF ReportsOn(d, file) = {}
    THEN [new_rows |-> <<>>, changed_rows |-> <<>>, missing_rows |-> <<>>]
    ELSE scan.detected_issues[CHOOSE k \in ReportsOn(d, file) : TRUE]

\* the codes of the snapshot
SnapshotKodes == {scan.db_inventory[n].kode : n \in 1..Len(scan.db_inventory)}

\* the code of a row as the specification reads it: empty for a null cell,
\* else the trimmed text of the cell
KodeOfRow(row) ==
    IF row["Kode"] \in {NaN, None} THEN <<>> ELSE Strip(Str(row["Kode"]))

\* a row with every column as text, nulls as the empty text
Stringified(row) ==
    [c \in DOMAIN row |-> IF row[c] \in {NaN, None} THEN <<>> ELSE Str(row[c])]

\* C16: in a scan, every row of a file read whose non-empty code is absent
\* from the snapshot is in the file's new_rows once per occurrence, with all
\* its columns as text; no row whose code is in the snapshot is in new_rows,
\* and a file has at most one report.
C16_NewRowsListed ==
    FilesCompared =>
        \A d \in ScanDirectories : \A file \in FilesListed(d) :
            AssetFileRead(file) =>
                LET new == ListsOf(d, file).new_rows
                IN  /\ Cardinality(ReportsOn(d, file)) <= 1
                    /\ \A k \in 1..Len(file.rows) :
                          (KodeOfRow(file.rows[k]) # <<>>
                              /\ KodeOfRow(file.rows[k]) \notin SnapshotKodes)
                          => Cardinality({j \in 1..Len(new) :
                                 new[j] = Stringified(file.rows[k])})
                             = Cardinality({m \in 1..Len(file.rows) :
                                 Stringified(file.rows[m]) = Stringified(file.rows[k])})
                    /\ \A j \in 1..Len(new) : Strip(new[j]["Kode"]) \notin SnapshotKodes

\* C16 witness: a run compared the sheet that has the row of A3 twice and a
\* row of A1 against a snapshot with A1 and without A3, and listed two new rows
C16_Witness ==
    /\ FilesCompared
    /\ FileChanged \in FilesListed(".")
    /\ A1 \in SnapshotKodes /\ A3 \notin SnapshotKodes
    /\ Len(ListsOf(".", FileChanged).new_rows) = 2
    /\ ListsOf(".", FileChanged).new_rows[1] = Stringified(RowNew)

\* the codes that occur in the rows of a file
KodesOfFile(file) ==
    {KodeOfRow(file.rows[k]) : k \in 1..Len(file.rows)} \ {<<>>}

\* C17: in a scan, the missing_rows of a file read list each code of the
\* snapshot that occurs in no row of the file once, and no other code.
C17_MissingRowsListed ==
    FilesCompared =>
        \A d \in ScanDirectories : \A file \in FilesListed(d) :
            AssetFileRead(file) =>
                LET missing == ListsOf(d, file).missing_rows
                IN  /\ \A c \in SnapshotKodes :
                          Cardinality({j \in 1..Len(missing) : missing[j].Kode = c})
                              = IF c \in KodesOfFile(file) THEN 0 ELSE 1
                    /\ \A j \in 1..Len(missing) : missing[j].Kode \in SnapshotKodes

\* C17 witness: a run compared the sheet with the one row of A1 against a
\* snapshot of A1 and A3, and listed A3 alone as missing
C17_Witness ==
    /\ FilesCompared
    /\ FileSame \in FilesListed(".")
    /\ SnapshotKodes = {A1, A3}
    /\ Len(ListsOf(".", FileSame).missing_rows) = 1
    /\ ListsOf(".", FileSame).missing_rows[1].Kode = A3

RECURSIVE DropLeading(_, _)
DropLeading(s, c) ==
    IF Len(s) > 0 /\ s[1] = c THEN DropLeading(Tail(s), c) ELSE s

RECURSIVE DropTrailing(_, _)
DropTrailing(s, c) ==
    IF Len(s) > 0 /\ s[Len(s)] = c THEN DropTrailing(SubSeq(s, 1, Len(s) - 1), c) ELSE s

\* a value as the specification normalises it: empty for a null or missing
\* value and for the text nan in any case, else the trimmed text
Normalised(row, col) ==
    LET v == IF col \in DOMAIN row THEN row[col] ELSE None
        t == IF v \in {NaN, None} THEN <<>> ELSE Strip(Str(v))
    IN  IF Len(t) = 3 /\ t[1] \in {"n", "N"} /\ t[2] \in {"a", "A"} /\ t[3] \in {"n", "N"}
        THEN <<>> ELSE t

\* the number a decimal text denotes, in a canonical form: the integer digits
\* without leading zeros, the fraction digits without trailing zeros, and
\* the sign of a number that is not zero
Canonical(s) ==
    LET body == IF s[1] \in {"-", "+"} THEN Tail(s) ELSE s
        point == {k \in 1..Len(body) : body[k] = "."}
        p == IF point = {} THEN Len(body) + 1 ELSE CHOOSE k \in point : TRUE
        whole == DropLeading(SubSeq(body, 1, p - 1), "0")
        fraction == DropTrailing(SubSeq(body, p + 1, Len(body)), "0")
    IN  [negative |-> s[1] = "-" /\ (whole # <<>> \/ fraction # <<>>),
         whole |-> whole, fraction |-> fraction]

\* two normalised values are equal: as numbers when both are present and
\* parse as numbers, else as texts
SameValue(x, y) ==
    IF x # <<>> /\ y # <<>> /\ FloatText(x) /\ FloatText(y)
    THEN Canonical(x) = Canonical(y)
    ELSE x = y

\* some compared pair of the row and the stored record is unequal
RowDiffers(row, db_row) ==
    \E k \in 1..Len(compare_fields) :
        ~SameValue(Normalised(row, compare_fields[k][1]),
                   Normalised(db_row, compare_fields[k][2]))

\* the record of the snapshot with the code
SnapshotRow(kode) ==
    scan.db_inventory[CHOOSE n \in 1..Len(scan.db_inventory) :
                          scan.db_inventory[n].kode = kode]

\* C18: in a scan, a row of a file read whose code is in the snapshot is in
\* the file's changed_rows if and only if some compared pair is unequal under
\* the normalised comparison (null, missing and "nan" are empty, two numbers
\* are compared as numbers, other values as trimmed texts): changed_rows
\* has one entry per such row and no other entry.
C18_ChangedRowsListed ==
    FilesCompared =>
        \A d \in ScanDirectories : \A file \in FilesListed(d) :
            AssetFileRead(file) =>
                LET changed == ListsOf(d, file).changed_rows
                IN  /\ \A c \in SnapshotKodes :
                          Cardinality({j \in 1..Len(changed) : changed[j].Kode = c})
                              = Cardinality({k \in 1..Len(file.rows) :
                                    /\ KodeOfRow(file.rows[k]) = c
                                    /\ RowDiffers(file.rows[k], SnapshotRow(c))})
                    /\ \A j \in 1..Len(changed) : changed[j].Kode \in SnapshotKodes

\* C18 witness: a run compared the sheet whose row of A1 has the float 2.0
\* and the text NaN against the stored quantity 2 and the stored NULL brand,
\* and did not list the row as changed
C18_Witness ==
    /\ FilesCompared
    /\ FileSame \in FilesListed(".")
    /\ A1 \in SnapshotKodes
    /\ SnapshotRow(A1).quantity = Int_(2)
    /\ SnapshotRow(A1).brand = None
    /\ Str(FileSame.rows[1]["Quantity"]) = <<"2", ".", "0">>
    /\ ListsOf(".", FileSame).changed_rows = <<>>

\* C19: a row whose code cell is empty (blank, or null) is skipped by the
\* scan: it is in neither new_rows nor changed_rows of its file and gives no
\* code to the set the missing rows are computed from (no stored code is
\* kept off missing_rows on its account); and after an import no record
\* stands under the text read from the empty cell of a row of the sheet.
C19_EmptyCodeRowsSkipped ==
    /\ FilesCompared =>
          \A d \in ScanDirectories : \A file \in FilesListed(d) :
              AssetFileRead(file) =>
                  \A k \in 1..Len(file.rows) :
                      KodeOfRow(file.rows[k]) = <<>> =>
                          LET lists == ListsOf(d, file)
                              read == Strip(Str(file.rows[k]["Kode"]))
                          IN  /\ \A j \in 1..Len(lists.new_rows) :
                                    lists.new_rows[j] # Stringified(file.rows[k])
                              /\ \A j \in 1..Len(lists.changed_rows) :
                                    lists.changed_rows[j].Kode # read
                              /\ (read \in SnapshotKodes /\ read \notin KodesOfFile(file))
                                    => \E j \in 1..Len(lists.missing_rows) :
                                           lists.missing_rows[j].Kode = read
    /\ ret.op = "ingest_from_excel" =>
          \A k \in 1..Len(ret.arg) :
              KodeOfRow(ret.arg[k]) = <<>> =>
                  ~KodeIn(fact_inventory, Strip(Str(ret.arg[k]["Kode"])))

\* the rows of every file read agree with the snapshot: each row has a code,
\* the code is stored and no compared pair differs, and each stored code is
\* in some row of the file
FilesAgree ==
    \A d \in ScanDirectories : \A file \in FilesListed(d) :
        AssetFileRead(file) =>
            /\ \A k \in 1..Len(file.rows) :
                  /\ KodeOfRow(file.rows[k]) \in SnapshotKodes
                  /\ ~RowDiffers(file.rows[k], SnapshotRow(KodeOfRow(file.rows[k])))
            /\ SnapshotKodes \subseteq KodesOfFile(file)

\* the latest two runs that published had the same files and the same
\* snapshot
ScannedTwiceUnchanged ==
    /\ scan.pc = "idle"
    /\ Len(scan.last) = 2
    /\ scan.last[1].run = scan.run
    /\ scan.last[1].fs = scan.last[2].fs
    /\ scan.last[1].db_inventory = scan.last[2].db_inventory

\* C20: when two runs in a row scanned the same files against the same
\* snapshot and the rows of the files agree with it, both published the
\* status "ok" and an empty list of file differences.
C20_ScanTwiceOk ==
    (ScannedTwiceUnchanged /\ FilesAgree) =>
        /\ SCAN_RESULTS = [detected_files |-> <<>>,
                           last_scan |-> Timestamp(scan.last[1].run),
                           status |-> "ok"]
        /\ [detected_files |-> <<>>,
            last_scan |-> Timestamp(scan.last[2].run),
            status |-> "ok"] \in published

\* C20 witness: two runs scanned the imported sheet, beside a lock file, an
\* unreadable file and a sheet of something else, against the two records
\* imported from it
C20_Witness ==
    /\ ScannedTwiceUnchanged /\ FilesAgree
    /\ FileInv \in FilesListed(".")
    /\ SnapshotKodes = {A1, A3}
    /\ SCAN_RESULTS.status = "ok" /\ SCAN_RESULTS.detected_files = <<>>
    /\ SCAN_RESULTS.last_scan = Timestamp(2)

(***************************************************************************)
(* Errors of a scan run (C21 to C24).                                      *)
(***************************************************************************)
\* the files the run listed that are not lock files and cannot be read
FilesFailing ==
    {file \in FilesListed(".") \cup FilesListed("data") :
        /\ ~(Len(file.filename) >= 2 /\ SubSeq(file.filename, 1, 2) = <<"~", "$">>)
        /\ ~file.readable}

\* the listing without the files that cannot be read
WithoutFailing(fs) ==
    [d \in ScanDirectories |->
        [exists |-> fs[d].exists,
         files |-> SelectSeq(fs[d].files, LAMBDA file : file.readable)]]

\* C21: a file that cannot be read does not abort the scan: the reports of
\* the run are those of the same listing without the failing files, no report
\* is on a failing file, the run goes on to publish, and when it is over the
\* published result is the one of this run.
C21_FileErrorSkipsOnlyThatFile ==
    (FilesCompared /\ FilesFailing # {}) =>
        /\ scan.detected_issues
               = DetectedIssues(WithoutFailing(scan.fs[1]), scan.db_inventory)
        /\ \A file \in FilesFailing : \A d \in ScanDirectories : ReportsOn(d, file) = {}
        /\ scan.pc \in {"publish_last_scan", "publish_detected_files",
                        "publish_status", "idle"}
        /\ scan.pc = "idle" =>
              SCAN_RESULTS = [detected_files |-> scan.detected_issues,
                              last_scan |-> Timestamp(scan.run),
                              status |-> IF scan.detected_issues = <<>>
                                         THEN "ok" ELSE "warning"]

\* C21 witness: a run listed the unreadable file before the sheet with the
\* changed row of A1, reported that sheet and published
C21_Witness ==
    /\ FilesCompared
    /\ scan.fs[1]["."].files = <<FileCorrupt, FileChanged>>
    /\ A1 \in SnapshotKodes
    /\ Len(ListsOf(".", FileChanged).changed_rows) = 1
    /\ scan.pc = "idle"
    /\ SCAN_RESULTS.detected_files = scan.detected_issues
    /\ SCAN_RESULTS.status = "warning"

\* the latest run ended by an error before it compared any file
RunThrew == scan.pc = "idle" /\ scan.run >= 1 /\ scan.fs = <<>>

\* C22: when a run throws before it finishes (here while it loads the
\* registry), the published result is as it was: the complete result of the
\* latest run that finished, or the initial result when no run has finished.
C22_ThrownRunLeavesResult ==
    RunThrew =>
        IF scan.last = <<>>
        THEN SCAN_RESULTS = ScanResultsInitial
        ELSE /\ SCAN_RESULTS \in published
             /\ SCAN_RESULTS.last_scan = Timestamp(scan.last[1].run)

\* C22 witness: the first run finished with a warning, the second run threw
\* while loading, and the result of the first run is still published
C22_Witness ==
    /\ RunThrew
    /\ scan.run = 2
    /\ Len(scan.last) = 1 /\ scan.last[1].run = 1
    /\ SCAN_RESULTS.last_scan = Timestamp(1)
    /\ SCAN_RESULTS.status = "warning"
    /\ SCAN_RESULTS.detected_files # <<>>

\* C23: against a store whose tables create_tables made (fact_inventory has
\* no is_deleted column), the load step of a run succeeds: a run that has
\* left the load step holds the snapshot and goes on to the files and to
\* publishing; it has not ended without comparing the files.
C23_LoadSucceedsOnCreatedTables ==
    (~has_is_deleted /\ scan.run >= 1 /\ scan.pc # "load") =>
        \/ scan.pc \in {"files", "publish_last_scan",
                        "publish_detected_files", "publish_status"}
        \/ scan.pc = "idle" /\ FilesCompared

\* the run is over and has published its result
RunPublished == scan.pc = "idle" /\ FilesCompared

\* the scan found a new, a changed or a missing row for the file
DifferencesFound(file, d) ==
    LET report == FileReport(file, d, scan.db_inventory)
    IN  \/ report.new_rows # <<>>
        \/ report.changed_rows # <<>>
        \/ report.missing_rows # <<>>

\* C24: a file the run listed is in the published detected_files if and only
\* if it qualified as an asset export and the scan found a new, changed or
\* missing row for it; and every entry of detected_files is on a listed file.
C24_ReportedIffDifferences ==
    RunPublished =>
        LET listed == SCAN_RESULTS.detected_files
        IN  /\ \A d \in ScanDirectories : \A file \in FilesListed(d) :
                  (\E k \in 1..Len(listed) :
                       listed[k].filename = file.filename /\ listed[k].directory = d)
                  <=> (AssetFileRead(file) /\ DifferencesFound(file, d))
            /\ \A k \in 1..Len(listed) :
                  \E file \in FilesListed(listed[k].directory) :
                      file.filename = listed[k].filename

\* C24 witness: a run listed the imported sheet, a lock file, an unreadable
\* file and a sheet of something else against the two imported records, and
\* published an empty list: the qualifying sheet has no difference
C24_Witness ==
    /\ RunPublished
    /\ FileInv \in FilesListed(".")
    /\ FileOther \in FilesListed("data")
    /\ AssetFileRead(FileInv) /\ ~DifferencesFound(FileInv, ".")
    /\ SCAN_RESULTS.detected_files = <<>>
    /\ SCAN_RESULTS.last_scan = Timestamp(scan.run)

(***************************************************************************)
(* The import and the upsert (C25 to C29).                                 *)
(***************************************************************************)
\* the codes of the registry
KodesOf(inv) == {inv[k].kode : k \in 1..Len(inv)}

\* the names of the catalog
NamesOf(dim) == {a.nama_aset : a \in dim}

\* C25: the summary of an import is exact: assets_added is the number of
\* definitions in the catalog after the call that were not there before, and
\* inventory_added the number of records of the registry after the call that
\* were not there before.
C25_ImportSummaryExact ==
    [][ \A df \in Sheets :
          ingest_from_excel(df) =>
             /\ ret'.val.assets_added
                   = Cardinality(NamesOf(dim_assets') \ NamesOf(dim_assets))
             /\ ret'.val.inventory_added
                   = Cardinality(KodesOf(fact_inventory') \ KodesOf(fact_inventory))
             /\ Len(fact_inventory')
                   = Len(fact_inventory) + ret'.val.inventory_added ]_vars

\* C25 witness: a sheet with the rows of A3 and A1 was imported into a
\* registry that held A1 and a catalog that held PC: one record added, no
\* definition added
C25_Witness ==
    /\ ret.op = "ingest_from_excel"
    /\ ret.arg = <<RowNew, RowA1>>
    /\ ret.val.assets_added = 0
    /\ ret.val.inventory_added = 1
    /\ KodesOf(fact_inventory) = {A1, A3}

\* C26: in an import, a row whose code is already stored, or whose asset
\* name is already in the catalog, has an entry in the errors of the summary
\* (and the rows after it are still imported).
C26_ImportSurfacesDuplicates ==
    [][ \A df \in Sheets :
          ingest_from_excel(df) =>
             \A k \in 1..Len(df) :
                /\ (StrippedText(df[k], "Kode") # <<>>
                       /\ KodeIn(fact_inventory, StrippedText(df[k], "Kode")))
                   => \E n \in 1..Len(ret'.val.errors) :
                          /\ ret'.val.errors[n][1] = "Inventory"
                          /\ ret'.val.errors[n][2] = StrippedText(df[k], "Kode")
                /\ (StrippedText(df[k], "Nama Aset") # <<>>
                       /\ AssetIn(dim_assets, StrippedText(df[k], "Nama Aset")))
                   => \E n \in 1..Len(ret'.val.errors) :
                          /\ ret'.val.errors[n][1] = "Asset"
                          /\ ret'.val.errors[n][2] = StrippedText(df[k], "Nama Aset") ]_vars

\* the tables after the whole call, from the tables before it
TxnWhole ==
    IF txn.op = "ingest_from_excel"
    THEN LET step1 == IngestAssets(txn.arg, 1, txn.before.dim, {},
                          [assets_added |-> 0, inventory_added |-> 0, errors |-> <<>>])
             step2 == IngestInventory(txn.arg, 1, txn.before.inv, step1.stats)
         IN  [dim |-> step1.dim, inv |-> step2.inv]
    ELSE LET row == UpsertInventoryRow(
                        AssetByName(txn.before.dim, txn.arg[1].nama_aset), txn.arg[2])
         IN  IF InventoryInsertError(txn.before.inv, row) = "ok"
             THEN [dim |-> UpsertCatalog(txn.before.dim, txn.arg[1]),
                   inv |-> Append(txn.before.inv, row)]
             ELSE txn.before

\* C27: a reader that runs while ingest_from_excel or
\* upsert_asset_and_inventory is in progress, or right after it, gets the
\* tables as they were before the call or as they are after the whole call,
\* never with a part of the call's writes; and the call leaves the tables of
\* the whole call.
C27_ReadersSeeNoneOrAll ==
    txn.pc # "none" =>
        /\ \A view \in txn.reads : view = txn.before \/ view = TxnWhole
        /\ txn.pc = "done" =>
              [dim |-> dim_assets, inv |-> fact_inventory] = TxnWhole

\* C27 witness: an import of two new rows has executed the statement of its
\* first row and not yet that of its second, and a reader has read the
\* tables as they were before the import
C27_Witness ==
    /\ txn.op = "ingest_from_excel"
    /\ txn.arg = <<RowNew, RowA1>>
    /\ txn.pc = "statement" /\ txn.k = 3
    /\ Len(txn.inv) = Len(txn.before.inv) + 1
    /\ Len(TxnWhole.inv) = Len(txn.before.inv) + 2
    /\ txn.reads = {txn.before}

\* C28: upsert_asset_and_inventory is all or nothing: when the insert of the
\* record fails the call raises and both tables are as before the call; the
\* definition the call had inserted is not in the catalog.  When it does not
\* fail, the definition and the record are both stored.
C28_UpsertAllOrNothing ==
    [][ \A input \in UpsertInputs :
          upsert_asset_and_inventory(input[1], input[2]) =>
             IF ret'.val # "ok"
             THEN /\ dim_assets' = dim_assets
                  /\ fact_inventory' = fact_inventory
             ELSE /\ AssetIn(dim_assets', input[1].nama_aset)
                  /\ Len(fact_inventory') = Len(fact_inventory) + 1 ]_vars

\* C28 witness: an upsert of a definition that was not in the catalog raised
\* on its record, and the definition is not in the catalog
C28_Witness ==
    /\ ret.op = "upsert_asset_and_inventory"
    /\ ret.val # "ok"
    /\ ~AssetIn(dim_assets, ret.arg[1].nama_aset)

\* C29: every record of the registry references a definition of the catalog:
\* after any imports and upserts, the asset name of each record is the name
\* of a catalog entry.
C29_RecordsReferenceCatalog ==
    \A k \in 1..Len(fact_inventory) : AssetIn(dim_assets, fact_inventory[k].nama_aset)

(***************************************************************************)
(* get_latest_item (C30).                                                  *)
(***************************************************************************)
\* a is before b in lexicographic order: a is a proper prefix of b, or at
\* the first position where they differ a has the lesser character
LexLess(a, b) ==
    \E k \in 1..Len(b) :
        /\ k <= Len(a) + 1
        /\ \A i \in 1..(k - 1) : a[i] = b[i]
        /\ (k = Len(a) + 1 \/ CharRank(a[k]) < CharRank(b[k]))

\* C30: get_latest_item(asset) returns the record whose code is the greatest
\* in lexicographic order among the records of that asset ("0224" is after
\* "0124"), and no record when the asset has none; the records of other
\* assets do not count.
C30_LatestItemIsGreatestKode ==
    /\ LexLess(<<"0", "1", "2", "4">>, <<"0", "2", "2", "4">>)
    /\ \A nama_aset \in {PC, TV, Dell, <<>>} :
          LET mine == {k \in 1..Len(fact_inventory) :
                          fact_inventory[k].nama_aset = nama_aset}
              latest == get_latest_item(nama_aset)
          IN  IF mine = {} THEN latest = NoRow
              ELSE /\ latest # NoRow
                   /\ \E k \in mine :
                         /\ latest[1] = fact_inventory[k]
                         /\ \A j \in mine \ {k} :
                               LexLess(fact_inventory[j].kode, fact_inventory[k].kode)

\* C30 witness: the asset PC has the records A3 and A1, A1 inserted after A3,
\* another asset has a record with a code after A3, and the latest item of PC
\* is A3
C30_Witness ==
    /\ Len(fact_inventory) = 3
    /\ fact_inventory[1].kode = A3 /\ fact_inventory[1].nama_aset = PC
    /\ fact_inventory[2].kode = A1 /\ fact_inventory[2].nama_aset = PC
    /\ fact_inventory[3].nama_aset = TV
    /\ LexLess(A3, fact_inventory[3].kode)
    /\ get_latest_item(PC) = <<fact_inventory[1]>>
    /\ get_latest_item(Dell) = NoRow

(***************************************************************************)
(* SpecDefault: the values the dialog's form fields start with, over the   *)
(* most recent record and the master definition of the selected asset.     *)
(***************************************************************************)
Operation == <<"O", "p", "e", "r", "a", "t", "i", "o", "n">>

\* what a TEXT column of a row holds: NULL, the empty text, or a text
DefaultValues == {None, <<>>, Dell}

\* get_inventory_template: no record, or the columns of the newest record
DefaultTemplates ==
    {NoRow} \cup {<<r>> : r \in [{"layanan", "pic", "user"} -> DefaultValues]}

\* get_asset_by_name: no definition, or its columns (dim_assets has no user)
DefaultMasters ==
    {NoRow} \cup {<<r>> : r \in [{"layanan", "pic"} -> DefaultValues]}

\* app.py lines 124, 140-142: the key of a text input and the literal after
\* its "or" (none for pic and user)
DefaultFields ==
    { [key |-> "layanan", literal |-> Operation],
      [key |-> "pic", literal |-> <<>>],
      [key |-> "user", literal |-> <<>>] }

\* value=get_default(key) or literal: Python's "or" passes over '' (and over
\* the "" get_default returns when both rows fail it)
FieldDefault(template, master_asset, key, literal) ==
    LET v == get_default(template, master_asset, key, key)
    IN  IF Truthy(v) THEN v ELSE literal

\* the dialog computes the starting value of one field
DefaultCall ==
    /\ \E template \in DefaultTemplates, master_asset \in DefaultMasters,
          field \in DefaultFields :
          ret' = [op |-> "get_default",
                  arg |-> [template |-> template, master_asset |-> master_asset,
                           field |-> field],
                  val |-> FieldDefault(template, master_asset,
                                       field.key, field.literal)]
    /\ UNCHANGED <<dim_assets, fact_inventory, dlg, scanvars>>

NextDefault == DefaultCall

SpecDefault == Init /\ [][NextDefault]_vars

\* the value a row holds under a key, None when there is no row or no such
\* column
HeldBy(row, key) ==
    IF row # NoRow /\ key \in DOMAIN row[1] THEN row[1][key] ELSE None

NonEmpty(v) == v # None /\ v # NaN /\ v # <<>>

\* C31: the default offered for a field is the first non-empty value in the
\* order most recent record, master definition, literal default; when the
\* most recent record holds an empty value and the master definition a
\* non-empty one, the master definition's value is offered.
C31_DefaultFirstNonEmpty ==
    ret.op = "get_default" =>
        LET recent == HeldBy(ret.arg.template, ret.arg.field.key)
            master == HeldBy(ret.arg.master_asset, ret.arg.field.key)
        IN  ret.val = IF NonEmpty(recent) THEN recent
                      ELSE IF NonEmpty(master) THEN master
                      ELSE ret.arg.field.literal

\* C32: a scan never modifies the store: every step of scan_directory, from
\* the opening of the database to the last of its three assignments, leaves
\* the records and the catalog as they were, whatever the files contain.
C32_ScanLeavesStore ==
    [][scan' # scan => UNCHANGED <<dim_assets, fact_inventory>>]_vars

\* a run over files with differences has published while the store holds
\* definitions and records
C32_Witness ==
    /\ scan.pc = "idle"
    /\ scan.last # <<>>
    /\ SCAN_RESULTS.status = "warning"
    /\ SCAN_RESULTS.last_scan = Timestamp(scan.run)
    /\ fact_inventory # <<>>
    /\ dim_assets # {}

(***************************************************************************)
(* SpecRoundTrip: a file is imported into an empty store and then scanned, *)
(* unchanged, by runs of scan_directory.                                   *)
(***************************************************************************)
\* a second row for the code A3 with another brand; a row with a quantity
\* cell of 2.5
RowNewOtherBrand == SheetRow(A3, PC, <<"H", "P">>, Int_(1), S1)
RowHalfQuantity == SheetRow(A1, PC, Dell, Float_(2, <<"5">>), NaN)

RoundTripSheets ==
    Sheets \cup {<<RowNew, RowNewOtherBrand>>, <<RowHalfQuantity>>}

\* the file pd.read_excel(f, header=5) gives the frame df for, both in
\* ingest_from_excel (db.py line 322) and in the scan (automation.py line 120)
FileOf(df) ==
    [filename |-> <<"i">>, readable |-> TRUE,
     columns |-> UNION {DOMAIN df[k] : k \in 1..Len(df)}, rows |-> df]

\* the directory "." holds the file and nothing else
FileSystemOf(df) ==
    [d \in {".", "data"} |->
        IF d = "." THEN Directory(<<FileOf(df)>>) ELSE NoDirectory]

\* the first call on the new store is the import of a file
RoundTripImport ==
    /\ ret.op = "init"
    /\ \E df \in RoundTripSheets : ingest_from_excel(df)
    /\ UNCHANGED <<dlg, scanvars>>

NextRoundTrip ==
    \/ RoundTripImport
    \/ ScanStart /\ ret.op = "ingest_from_excel"
    \/ ScanLoad
    \/ ScanLoadFails
    \/ ScanFilesIn(FileSystemOf(ret.arg))
    \/ PublishLastScan
    \/ PublishDetectedFiles
    \/ PublishStatus

SpecRoundTrip == InitScan /\ [][NextRoundTrip]_vars

\* C33: after the import of a file into an empty store, a run of the scan
\* over that same file finds no new, changed or missing row: the file is not
\* reported and the status is "ok".
C33_ImportThenScanClean ==
    (/\ ret.op = "ingest_from_excel"
     /\ scan.pc = "idle"
     /\ scan.last # <<>>)
        => /\ SCAN_RESULTS.detected_files = <<>>
           /\ SCAN_RESULTS.status = "ok"

\* C34: ingest_from_excel is idempotent: an import of the rows the call
\* before it imported, with no other write in between, returns
\* assets_added = 0 and inventory_added = 0 and leaves every definition and
\* every record as it was.
C34_ImportIdempotent ==
    [][\A df \in Sheets :
          (/\ ret.op = "ingest_from_excel"
           /\ ret.arg = df
           /\ ingest_from_excel(df))
              => /\ ret'.val.assets_added = 0
                 /\ ret'.val.inventory_added = 0
                 /\ UNCHANGED <<dim_assets, fact_inventory>>]_vars

\* the second import of a sheet of two rows has returned: nothing added,
\* and the store holds what the first import made of the rows
C34_Witness ==
    /\ ret.op = "ingest_from_excel"
    /\ ret.arg = <<RowNew, RowA1>>
    /\ ret.val.assets_added = 0
    /\ ret.val.inventory_added = 0
    /\ fact_inventory = <<IngestInventoryRow(RowNew, A3), IngestInventoryRow(RowA1, A1)>>
    /\ dim_assets = {[nama_aset |-> PC, brand |-> Dell]}

\* C35: once a scan run has completed, the published result is consistent
\* with itself: status is "warning" exactly when detected_files is not empty
\* and "ok" exactly when it is empty (a later run is between its second and
\* third assignment only at "publish_status").
C35_StatusMatchesDetectedFiles ==
    (scan.last # <<>> /\ scan.pc # "publish_status")
        => /\ SCAN_RESULTS.status \in {"ok", "warning"}
           /\ SCAN_RESULTS.status = "warning" <=> SCAN_RESULTS.detected_files # <<>>
           /\ SCAN_RESULTS.status = "ok" <=> SCAN_RESULTS.detected_files = <<>>

\* two runs have completed: the first reported files, the second found none
C35_Witness ==
    /\ scan.pc = "idle"
    /\ Len(scan.last) = 2
    /\ DetectedIssues(scan.last[2].fs[1], scan.last[2].db_inventory) # <<>>
    /\ SCAN_RESULTS.detected_files = <<>>
    /\ SCAN_RESULTS.status = "ok"

\* the codes listed in new_rows (as listed, and trimmed as the scan read
\* them), in changed_rows and in missing_rows of a report
NewKodes(lists) ==
    {lists.new_rows[j]["Kode"] : j \in 1..Len(lists.new_rows)}
        \cup {Strip(lists.new_rows[j]["Kode"]) : j \in 1..Len(lists.new_rows)}
ChangedKodes(lists) ==
    {lists.changed_rows[j].Kode : j \in 1..Len(lists.changed_rows)}
MissingKodes(lists) ==
    {lists.missing_rows[j].Kode : j \in 1..Len(lists.missing_rows)}

\* C36: for each file a scan reports, the codes in new_rows, in changed_rows
\* and in missing_rows are pairwise disjoint, and every code of the snapshot
\* is either a code seen in the file or listed in missing_rows, never both.
C36_ListsPartitionKodes ==
    FilesCompared =>
        \A d \in ScanDirectories : \A file \in FilesListed(d) :
            ReportsOn(d, file) # {} =>
                LET lists == ListsOf(d, file)
                IN  /\ NewKodes(lists) \cap ChangedKodes(lists) = {}
                    /\ NewKodes(lists) \cap MissingKodes(lists) = {}
                    /\ ChangedKodes(lists) \cap MissingKodes(lists) = {}
                    /\ \A c \in SnapshotKodes :
                          (c \in KodesOfFile(file)) # (c \in MissingKodes(lists))

\* a run reported the sheet with another row for A1 and the row of A3 twice
\* against a snapshot of A1 alone, and a sheet without A1 in the same run:
\* one file with a changed and a new code, another with a missing code
C36_Witness ==
    /\ FilesCompared
    /\ FileChanged \in FilesListed(".")
    /\ SnapshotKodes = {A1}
    /\ ChangedKodes(ListsOf(".", FileChanged)) = {A1}
    /\ NewKodes(ListsOf(".", FileChanged)) = {A3}
    /\ MissingKodes(ListsOf("data", FileBlank)) = {A1}

\* a text with no decimal digit
NoDigit(s) == \A k \in 1..Len(s) : ~IsDigit(s[k])

\* C37: a bulk creation of N >= 2 records from a base code without a decimal
\* digit inserts one record, under the base code, and stops at the second
\* iteration on the refusal of the same code: the loop never gets further
\* than one created code, and it ends failed, never in success.
C37_DigitlessBaseStopsAtSecond ==
    \A w \in Sessions :
        (/\ dlg[w].pc \in {"loop", "failed", "success"}
         /\ dlg[w].kode # <<>>
         /\ NoDigit(dlg[w].kode)
         /\ dlg[w].quantity >= 2)
            => /\ dlg[w].pc # "success"
               /\ dlg[w].i <= 1
               /\ dlg[w].i = 1 =>
                     /\ dlg[w].created_kodes = <<dlg[w].kode>>
                     /\ Cardinality({k \in 1..Len(fact_inventory) :
                            fact_inventory[k].kode = dlg[w].kode}) = 1
               /\ dlg[w].pc = "failed" =>
                     /\ dlg[w].i = 1
                     /\ dlg[w].current_kode = dlg[w].kode
                     /\ dlg[w].shown = BulkErrorShown("IntegrityError")

\* a batch of three from the base code X has failed at its second insert
C37_Witness ==
    /\ dlg[1].pc = "failed"
    /\ dlg[1].kode = <<"X">>
    /\ dlg[1].quantity = 3
    /\ dlg[1].i = 1
    /\ dlg[1].created_kodes = <<<<"X">>>>
    /\ KodeIn(fact_inventory, <<"X">>)

(***************************************************************************)
(* SpecTwoBulk: two sessions run the dialog at the same time over the code *)
(* ranges that start at A1 and at A2; the registry starts empty and only   *)
(* the two loops add to it.                                                *)
(***************************************************************************)
TwoBulkKodes == {A1, A2}

\* each session's dialog is opened with a base code of TwoBulkKodes and no
\* serial number; a session whose Save was rejected closes the dialog and may
\* open it again
NextTwoBulk ==
    \/ \E data \in OtherAssetInputs : insert_asset(data) /\ UNCHANGED <<dlg, scanvars>>
    \/ \E w \in Sessions :
          \/ /\ BulkOpen(w)
             /\ dlg'[w].kode \in TwoBulkKodes
             /\ dlg'[w].serial_number = <<>>
          \/ BulkValidate(w)
          \/ BulkInsert(w) /\ Bounded /\ UNCHANGED scanvars
          \/ BulkClose(w) /\ dlg[w].pc = "rejected"

SpecTwoBulk == Init /\ [][NextTwoBulk]_vars

\* the codes in a session's list of created codes
CreatedBy(w) == {dlg[w].created_kodes[k] : k \in 1..Len(dlg[w].created_kodes)}

\* C38: when two bulk creations run at the same time over overlapping code
\* ranges, each code is in the registry once and is counted as created by
\* one of the two: the lists of created codes are disjoint, hold no code
\* twice, and their union is the set of the codes the two added.
C38_ConcurrentBatchesPartition ==
    /\ CreatedBy(1) \cap CreatedBy(2) = {}
    /\ CreatedBy(1) \cup CreatedBy(2) = KodesOf(fact_inventory)
    /\ \A w \in Sessions :
          Cardinality(CreatedBy(w)) = Len(dlg[w].created_kodes)
    /\ Cardinality(KodesOf(fact_inventory)) = Len(fact_inventory)

\* session 1 asked for A1, A2, A3 and session 2 for A2, A3: session 2 got
\* both, session 1 its first and was refused the second
C38_Witness ==
    /\ dlg[1].pc = "failed"
    /\ dlg[1].kode = A1
    /\ dlg[1].quantity = 3
    /\ dlg[1].created_kodes = <<A1>>
    /\ dlg[1].current_kode = A2
    /\ dlg[2].pc = "success"
    /\ dlg[2].kode = A2
    /\ dlg[2].created_kodes = <<A2, A3>>

\* C39: increments compose: for a text s and steps a, b >= 0,
\* increment_string(increment_string(s, a), b) = increment_string(s, a + b);
\* so the code of iteration i of a bulk loop, the base incremented by one i
\* times, is increment_string(base, i).
C39_IncrementsCompose ==
    (ret.op = "increment_string" /\ ret.arg.steps >= 0) =>
        /\ \A b \in 0..MaxSteps :
              increment_string(ret.val, b)
                  = increment_string(ret.arg.s, ret.arg.steps + b)
        /\ IncrementTimes(ret.arg.s, ret.arg.steps)
              = increment_string(ret.arg.s, ret.arg.steps)

\* "v99" incremented by 2 gave "v101", one character longer, and one more
\* step from there gives what 3 steps give from "v99"
C39_Witness ==
    /\ ret.op = "increment_string"
    /\ ret.arg.s = <<"v", "9", "9">>
    /\ ret.arg.steps = 2
    /\ ret.val = <<"v", "1", "0", "1">>
    /\ increment_string(ret.val, 1) = <<"v", "1", "0", "2">>

=============================================================================
